---- MODULE Spec2Model ----
(***************************************************************************)
(* The Xata connection facade of st_xatadb_connection and                  *)
(* st_xata_connection: credential resolution, client construction and the  *)
(* forwarding of each facade method to one remote operation.               *)
(*                                                                         *)
(* The facade is synchronous: a method runs from its first line to its     *)
(* return or raise without interleaving, so each method is one action.     *)
(* What the method did is recorded in `last`: the arguments it was called  *)
(* with, what the credential resolver produced, the remote calls it issued *)
(* in order (with the response each one got) and how it ended.             *)
(***************************************************************************)
EXTENDS Integers, Sequences, FiniteSets, TLC

\* ------------------------------------------------------------------ bounds

\* Number of distinct response objects the remote service hands out.
MaxRespId == 2

\* if_version ranges over 1..MaxVersion (besides None).
MaxVersion == 1

\* Default pagesize of next_page / prev_page.
DefaultPageSize == 20

\* ------------------------------------------------------------------ values

\* Python's None and a present value.
None == <<>>
Some(v) == <<v>>

XATADB == "st_xatadb_connection"
XATA == "st_xata_connection"
Packages == {XATADB, XATA}

API_KEY == "XATA_API_KEY"
DB_URL == "XATA_DB_URL"

\* The host's secrets mapping for this connection: each name may be missing;
\* the api key entry may hold None or an empty string (tests/__init__.py
\* stores os.environ.get(...), which is None when the variable is unset).
SecretsStores ==
    { [k \in {} |-> None] }
    \cup { [XATA_API_KEY |-> a] : a \in {None, Some(""), Some("key_secrets")} }
    \cup { [XATA_DB_URL |-> u] : u \in {Some("url_secrets")} }
    \cup { [XATA_API_KEY |-> a, XATA_DB_URL |-> u] :
             a \in {None, Some(""), Some("key_secrets")}, u \in {Some("url_secrets")} }

\* The process environment: values are strings.
Environments ==
    { [k \in {} |-> ""] }
    \cup { [XATA_API_KEY |-> "key_env"] }
    \cup { [XATA_DB_URL |-> "url_env"] }
    \cup { [XATA_API_KEY |-> "key_env", XATA_DB_URL |-> "url_env"] }

\* Arguments of the connect step.
ExplicitKeys == {None, Some("key_arg")}
ExplicitUrls == {None, Some("url_arg")}
ClientKwargs == { [k \in {} |-> ""], [branch_name |-> "dev"] }
TableNames ==
    {None,
     Some([kind |-> "list", items |-> <<"Alumno">>]),
     Some([kind |-> "dict", items |-> [Alumno |-> "alumnos"]])}

\* What the remote service answers: a response object (identified by id) with
\* its success flag, status code and server message.
Responses ==
    { [id |-> i, is_success |-> TRUE, status_code |-> 200, server_message |-> ""] :
        i \in 1..MaxRespId }
    \cup { [id |-> i, is_success |-> FALSE, status_code |-> s.code, server_message |-> s.msg] :
             i \in 1..MaxRespId,
             s \in { [code |-> 400, msg |-> "invalid"], [code |-> 404, msg |-> "not found"] } }

\* ------------------------------------------------------------------- state

VARIABLES
    pkg,              \* which package's XataConnection this instance is
    secrets,          \* self._secrets: the host's secrets mapping
    environ,          \* os.environ
    client_kwargs,    \* self.client_kwargs
    __secrets,        \* self.__secrets: the credentials given at connect time
    _table_names,     \* self._table_names (st_xata_connection)
    attrs,            \* attributes set on the instance with setattr
    connect_outcome,  \* how _connect ended, "not_called" before it ran
    at_connect,       \* history, kept when tracking: the client _connect built and
                      \* the client of the latest operation since the host changed
    threads,          \* the operations in progress when callers run concurrently
    last              \* the most recent method call

vars == <<pkg, secrets, environ, client_kwargs, __secrets, _table_names, attrs,
          connect_outcome, at_connect, threads, last>>

\* The instance's fields, which only _connect writes; with the history, what
\* no operation writes.
fields == <<client_kwargs, __secrets, _table_names, attrs, connect_outcome>>
facade == <<fields, at_connect, threads>>
host == <<pkg, secrets, environ>>

\* ----------------------------------------------------------------- results

NoClient == [kind |-> "none", args |-> <<>>, error |-> <<>>]

Return(shape, value) == [kind |-> "return", shape |-> shape, value |-> value, error |-> <<>>]
Raise(error) == [kind |-> "raise", shape |-> "none", value |-> <<>>, error |-> error]

ConnectionRefusedError ==
    [type |-> "ConnectionRefusedError",
     args |-> <<"No API key found. Please set the XATA_API_KEY environment variable or add it to the secrets manager.">>]
XataServerError(status_code, message) ==
    [type |-> "XataServerError", args |-> <<status_code, message>>]
AttributeError(name) == [type |-> "AttributeError", args |-> <<name>>]

Idle == [op |-> "none", args |-> <<>>, client |-> NoClient, calls |-> <<>>,
         outcome |-> [kind |-> "none", shape |-> "none", value |-> <<>>, error |-> <<>>]]

RemoteCall(remote, args, response) == [remote |-> remote, args |-> args, response |-> response]

\* ---------------------------------------------------------------- resolver

\* resolve_api_key with the environment consulted before the secrets store.
resolve_api_key_env_first(inst, api_key) ==
    IF api_key # None
    THEN [found |-> TRUE, value |-> api_key]
    ELSE IF API_KEY \in DOMAIN environ
    THEN [found |-> TRUE, value |-> Some(environ[API_KEY])]
    ELSE IF API_KEY \in DOMAIN secrets
    THEN [found |-> TRUE, value |-> secrets[API_KEY]]
    ELSE IF API_KEY \in DOMAIN inst /\ inst[API_KEY] # None
    THEN [found |-> TRUE, value |-> inst[API_KEY]]
    ELSE [found |-> FALSE, value |-> None]

\* resolve_api_key without the final raise: a missing key is passed on as None.
resolve_api_key_no_raise(inst, api_key) ==
    IF api_key # None
    THEN [found |-> TRUE, value |-> api_key]
    ELSE IF API_KEY \in DOMAIN secrets
    THEN [found |-> TRUE, value |-> secrets[API_KEY]]
    ELSE IF API_KEY \in DOMAIN environ
    THEN [found |-> TRUE, value |-> Some(environ[API_KEY])]
    ELSE IF API_KEY \in DOMAIN inst /\ inst[API_KEY] # None
    THEN [found |-> TRUE, value |-> inst[API_KEY]]
    ELSE [found |-> TRUE, value |-> None]

\* The api key the resolver settles on, or that it found none.
resolve_api_key(inst, api_key) ==
    IF api_key # None
    THEN [found |-> TRUE, value |-> api_key]
    ELSE IF API_KEY \in DOMAIN secrets
    THEN [found |-> TRUE, value |-> secrets[API_KEY]]
    ELSE IF API_KEY \in DOMAIN environ
    THEN [found |-> TRUE, value |-> Some(environ[API_KEY])]
    ELSE IF API_KEY \in DOMAIN inst /\ inst[API_KEY] # None
    THEN [found |-> TRUE, value |-> inst[API_KEY]]
    ELSE [found |-> FALSE, value |-> None]

\* resolve_db_url looking for the URL only where the api key is taken from.
resolve_db_url_same_source(inst, db_url) ==
    IF db_url # None
    THEN db_url
    ELSE IF API_KEY \in DOMAIN secrets
    THEN (IF DB_URL \in DOMAIN secrets THEN secrets[DB_URL] ELSE None)
    ELSE IF API_KEY \in DOMAIN environ
    THEN (IF DB_URL \in DOMAIN environ THEN Some(environ[DB_URL]) ELSE None)
    ELSE IF DB_URL \in DOMAIN inst /\ inst[DB_URL] # None
    THEN inst[DB_URL]
    ELSE None

\* The database URL the resolver settles on; None when no source has one.
resolve_db_url(inst, db_url) ==
    IF db_url # None
    THEN db_url
    ELSE IF DB_URL \in DOMAIN secrets
    THEN secrets[DB_URL]
    ELSE IF DB_URL \in DOMAIN environ
    THEN Some(environ[DB_URL])
    ELSE IF DB_URL \in DOMAIN inst /\ inst[DB_URL] # None
    THEN inst[DB_URL]
    ELSE None

\* XataClient always handed a db_url argument, None included.
XataClient_always_db_url(api_key, db_url, kwargs) ==
    [kind |-> "client",
     args |-> [api_key |-> api_key, db_url |-> db_url, kwargs |-> kwargs],
     error |-> <<>>]

\* XataClient(api_key=..., [db_url=...,] **kwargs): the client is what it was
\* constructed with.
XataClient(api_key, db_url, kwargs) ==
    IF db_url = None
    THEN [kind |-> "client", args |-> [api_key |-> api_key, kwargs |-> kwargs], error |-> <<>>]
    ELSE [kind |-> "client",
          args |-> [api_key |-> api_key, db_url |-> db_url, kwargs |-> kwargs],
          error |-> <<>>]

\* _call_client handing the db_url on only until an operation has built a
\* client: later calls build theirs without it.
_call_client_forgets_db_url(inst, api_key, db_url, kwargs) ==
    LET key == resolve_api_key(inst, api_key)
        url == resolve_db_url(inst, db_url)
    IN  IF ~key.found
        THEN [kind |-> "raise", args |-> <<>>, error |-> ConnectionRefusedError]
        ELSE IF at_connect.previous.kind = "client"
        THEN XataClient(key.value, None, kwargs)
        ELSE XataClient(key.value, url, kwargs)

\* _call_client (st_xatadb_connection) / __call__ (st_xata_connection), run on
\* an instance whose self.__secrets is inst.
_call_client(inst, api_key, db_url, kwargs) ==
    LET key == resolve_api_key(inst, api_key)
        url == resolve_db_url(inst, db_url)
    IN  IF ~key.found
        THEN [kind |-> "raise", args |-> <<>>, error |-> ConnectionRefusedError]
        ELSE XataClient(key.value, url, kwargs)

\* ----------------------------------------------------------------- connect

\* st_xatadb_connection._connect
_connect ==
    /\ pkg = XATADB
    /\ connect_outcome = "not_called"
    /\ \E api_key \in ExplicitKeys, db_url \in ExplicitUrls, kwargs \in ClientKwargs :
         LET inst == [XATA_API_KEY |-> api_key, XATA_DB_URL |-> db_url]
             c == _call_client(inst, api_key, db_url, kwargs)
             out == IF c.kind = "raise" THEN Raise(c.error) ELSE Return("None", <<>>)
         IN  /\ client_kwargs' = kwargs
             /\ __secrets' = inst
             /\ connect_outcome' = IF out.kind = "raise" THEN out.error.type ELSE "returned"
             /\ at_connect' = IF at_connect.tracking
                              THEN [at_connect EXCEPT !.client = c]
                              ELSE at_connect
             /\ last' = [op |-> "_connect",
                         args |-> [api_key |-> api_key, db_url |-> db_url, kwargs |-> kwargs],
                         client |-> c, calls |-> <<>>, outcome |-> out]
    /\ UNCHANGED <<host, _table_names, attrs, threads>>

\* The methods both packages' XataConnection classes define.
CommonMethods ==
    {"__init__", "_connect", "query", "get", "insert", "upsert", "update", "delete",
     "search", "search_on_table", "vector_search", "aggregate", "summarize",
     "transaction", "sql_query", "askai", "askai_follow_up", "bulk_insert",
     "upload_file", "append_file_to_array", "get_file", "get_file_from_array",
     "delete_file", "delete_file_from_array", "image_transform", "next_page",
     "prev_page", "get_schema", "create_table", "delete_table", "create_column",
     "delete_column", "get_columns", "bulk_processor", "bulk_transaction"}

\* The methods the XataConnection class of the given package defines.
Methods(package) ==
    CommonMethods \cup (IF package = XATADB
                        THEN {"_call_client", "api_request"}
                        ELSE {"__call__", "fix_date"})

\* Whether the class of the given package defines the named method.
HasMethod(package, name) == name \in Methods(package)

\* The attributes the end of st_xata_connection._connect sets on the instance
\* (as a map from attribute name to value) for the table_names it was given:
\* the inner tests are made only when table_names is None.
table_attrs(table_names) ==
    IF table_names = None
    THEN IF table_names # None /\ table_names[1].kind = "list"
         THEN [t \in {table_names[1].items[i] : i \in DOMAIN table_names[1].items} |->
                  [schema_of |-> t]]
         ELSE IF table_names # None /\ table_names[1].kind = "dict"
         THEN LET tables == DOMAIN table_names[1].items
                  aliases == {table_names[1].items[t] : t \in tables}
              IN  [a \in tables \cup aliases |->
                      IF a \in tables
                      THEN [schema_of |-> a]
                      ELSE [table_name |-> CHOOSE t \in tables : table_names[1].items[t] = a]]
         ELSE <<>>
    ELSE <<>>

\* st_xata_connection._connect
_connect_xata ==
    /\ pkg = XATA
    /\ connect_outcome = "not_called"
    /\ \E api_key \in ExplicitKeys, db_url \in ExplicitUrls,
          table_names \in TableNames, kwargs \in ClientKwargs :
         LET inst == [XATA_API_KEY |-> api_key, XATA_DB_URL |-> db_url]
             c == _call_client(inst, api_key, db_url, kwargs)
             out == IF c.kind = "raise" THEN Raise(c.error)
                    ELSE IF ~HasMethod(XATA, "_call_client")
                    THEN Raise(AttributeError("_call_client"))
                    ELSE Return("None", <<>>)
         IN  /\ client_kwargs' = kwargs
             /\ _table_names' = None
             /\ __secrets' = inst
             /\ connect_outcome' = IF out.kind = "raise" THEN out.error.type ELSE "returned"
             /\ at_connect' = IF at_connect.tracking
                              THEN [at_connect EXCEPT !.client = c]
                              ELSE at_connect
             /\ attrs' = IF out.kind = "raise" THEN attrs ELSE table_attrs(table_names)
             /\ last' = [op |-> "_connect",
                         args |-> [api_key |-> api_key, db_url |-> db_url,
                                   table_names |-> table_names, kwargs |-> kwargs],
                         client |-> c, calls |-> <<>>, outcome |-> out]
    /\ UNCHANGED <<host, threads>>

\* A method of the instance can run once _connect has assigned
\* self.client_kwargs and self.__secrets.
Constructed == connect_outcome # "not_called"

\* Calls are synchronous and come one at a time: a method is called when the
\* caller is between calls.
Ready == Constructed /\ last = Idle

\* The caller has taken the result (or the exception) of the call and goes on.
ReturnToCaller ==
    /\ last # Idle
    /\ last' = Idle
    /\ at_connect' = IF at_connect.tracking /\ last.op # "_connect" /\ last.client # NoClient
                     THEN [at_connect EXCEPT !.previous = last.client]
                     ELSE at_connect
    /\ UNCHANGED <<host, fields, threads>>

\* --------------------------------------------------------- the environment

\* The secrets store and the process environment are read anew by every
\* resolver call; between two calls the host may have changed them.
SecretsChange ==
    /\ last = Idle
    /\ \E s \in SecretsStores : s # secrets /\ secrets' = s
    /\ last' = Idle
    /\ at_connect' = [at_connect EXCEPT !.previous = NoClient]
    /\ UNCHANGED <<pkg, environ, fields, threads>>

EnvironChange ==
    /\ last = Idle
    /\ \E e \in Environments : e # environ /\ environ' = e
    /\ last' = Idle
    /\ at_connect' = [at_connect EXCEPT !.previous = NoClient]
    /\ UNCHANGED <<pkg, secrets, fields, threads>>

\* -------------------------------------------------------------- forwarding

\* check_response without the check.
check_response_unchecked(response) == Return("response", <<response>>)

\* check_response returning a copy of a successful response.
check_response_copy(response) ==
    IF ~response.is_success
    THEN Raise(XataServerError(response.status_code, response.server_message))
    ELSE Return("response", <<[response EXCEPT !.id = 0]>>)

\* if not response.is_success(): raise XataServerError(...); return response
check_response(response) ==
    IF ~response.is_success
    THEN Raise(XataServerError(response.status_code, response.server_message))
    ELSE Return("response", <<response>>)

\* The body shared by the single-call methods: obtain a client, issue the
\* remote call, inspect the response.
Forward(op, args, remote, rargs, response) ==
    LET c == _call_client(__secrets, None, None, client_kwargs)
    IN  IF c.kind = "raise"
        THEN [op |-> op, args |-> args, client |-> c, calls |-> <<>>,
              outcome |-> Raise(c.error)]
        ELSE [op |-> op, args |-> args, client |-> c,
              calls |-> <<RemoteCall(remote, rargs, response)>>,
              outcome |-> check_response(response)]

Tables == {"Users"}
RecordIds == {"rec_1"}
Records == { [name |-> "Ana"] }
Columns == {None, Some(<<"name">>)}

\* query leaving an api key behind in the process environment.
query_echoing_environ ==
    /\ Ready
    /\ \E table_name \in Tables, full_query \in {None}, response \in Responses :
         last' = Forward("query", [table_name |-> table_name, full_query |-> full_query],
                         "data.query", <<table_name, full_query>>, response)
    /\ environ' = [k \in DOMAIN environ \cup {API_KEY} |->
                      IF k = API_KEY THEN "key_env" ELSE environ[k]]
    /\ UNCHANGED <<pkg, secrets, facade>>

query ==
    /\ Ready
    /\ \E table_name \in Tables, full_query \in {None}, response \in Responses :
         last' = Forward("query", [table_name |-> table_name, full_query |-> full_query],
                         "data.query", <<table_name, full_query>>, response)
    /\ UNCHANGED <<host, facade>>

get ==
    /\ Ready
    /\ \E table_name \in Tables, record_id \in RecordIds, columns \in Columns,
          response \in Responses :
         last' = Forward("get",
                         [table_name |-> table_name, record_id |-> record_id, columns |-> columns],
                         "records.get", <<table_name, record_id, columns>>, response)
    /\ UNCHANGED <<host, facade>>

\* ----------------------------------------------------------------- records

Uuids == {"uuid_a", "uuid_b"}
RecordIdArgs == {None, Some("rec_1")}
CreateOnlyArgs == {None, Some(TRUE)}
IfVersionArgs == {None} \cup {Some(v) : v \in 1..MaxVersion}

\* takes_insert_with_id with `and` in place of `or` for every package.
takes_insert_with_id_and(package, record_id, create_only, if_version, columns) ==
    record_id # None /\ (create_only # None \/ if_version # None \/ columns # None)

\* The condition under which insert takes the explicit-id path.
takes_insert_with_id(package, record_id, create_only, if_version, columns) ==
    IF package = XATADB
    THEN record_id # None \/ (create_only # None \/ if_version # None \/ columns # None)
    ELSE record_id # None /\ (create_only # None \/ if_version # None \/ columns # None)

\* The remote call insert issues; uuid is what uuid.uuid4() yields if asked.
insert_call(package, table_name, record, record_id, create_only, if_version, columns, uuid, response) ==
    IF takes_insert_with_id(package, record_id, create_only, if_version, columns)
    THEN LET id == IF record_id = None THEN uuid ELSE record_id[1]
         IN  RemoteCall("records.insert_with_id",
                        [table_name |-> table_name, record_id |-> id, payload |-> record,
                         create_only |-> create_only, if_version |-> if_version,
                         columns |-> columns],
                        response)
    ELSE RemoteCall("records.insert", [table_name |-> table_name, payload |-> record], response)

insert ==
    /\ Ready
    /\ \E table_name \in Tables, record \in Records, record_id \in RecordIdArgs,
          create_only \in CreateOnlyArgs, if_version \in IfVersionArgs, columns \in Columns,
          uuid \in Uuids, response \in Responses :
         LET call == insert_call(pkg, table_name, record, record_id, create_only,
                                 if_version, columns, uuid, response)
         IN  last' = Forward("insert",
                             [table_name |-> table_name, record |-> record,
                              record_id |-> record_id, create_only |-> create_only,
                              if_version |-> if_version, columns |-> columns],
                             call.remote, call.args, response)
    /\ UNCHANGED <<host, facade>>

upsert ==
    /\ Ready
    /\ \E table_name \in Tables, record_id \in RecordIds, record \in Records,
          response \in Responses :
         last' = Forward("upsert",
                         [table_name |-> table_name, record_id |-> record_id, record |-> record,
                          if_version |-> None, columns |-> None],
                         "records.upsert",
                         [table_name |-> table_name, record_id |-> record_id, payload |-> record,
                          columns |-> None, if_version |-> None],
                         response)
    /\ UNCHANGED <<host, facade>>

update ==
    /\ Ready
    /\ \E table_name \in Tables, record_id \in RecordIds, record \in Records,
          response \in Responses :
         last' = Forward("update",
                         [table_name |-> table_name, record_id |-> record_id, record |-> record],
                         "records.update",
                         IF pkg = XATADB
                         THEN [table_name |-> table_name, record_id |-> record_id,
                               payload |-> record, if_version |-> None, columns |-> None]
                         ELSE [table_name |-> table_name, record_id |-> record_id,
                               payload |-> record],
                         response)
    /\ UNCHANGED <<host, facade>>

delete ==
    /\ Ready
    /\ \E table_name \in Tables, record_id \in RecordIds, response \in Responses :
         last' = Forward("delete", [table_name |-> table_name, record_id |-> record_id],
                         "records.delete",
                         IF pkg = XATADB
                         THEN [table_name |-> table_name, record_id |-> record_id,
                               columns |-> None]
                         ELSE [table_name |-> table_name, record_id |-> record_id],
                         response)
    /\ UNCHANGED <<host, facade>>

\* ------------------------------------------------------ search and analysis

SearchQueries == { [query |-> "Ana"] }

search ==
    /\ Ready
    /\ \E search_query \in SearchQueries, response \in Responses :
         last' = Forward("search", [search_query |-> search_query],
                         "data.search_branch", <<search_query>>, response)
    /\ UNCHANGED <<host, facade>>

search_on_table ==
    /\ Ready
    /\ \E table_name \in Tables, search_query \in SearchQueries, response \in Responses :
         last' = Forward("search_on_table",
                         [table_name |-> table_name, search_query |-> search_query],
                         "data.search_table", <<table_name, search_query>>, response)
    /\ UNCHANGED <<host, facade>>

vector_search ==
    /\ Ready
    /\ \E table_name \in Tables, search_query \in SearchQueries, response \in Responses :
         last' = Forward("vector_search",
                         [table_name |-> table_name, search_query |-> search_query],
                         "data.vector_search", <<table_name, search_query>>, response)
    /\ UNCHANGED <<host, facade>>

aggregate ==
    /\ Ready
    /\ \E table_name \in Tables, aggregate_query \in SearchQueries, response \in Responses :
         last' = Forward("aggregate",
                         [table_name |-> table_name, aggregate_query |-> aggregate_query],
                         "data.aggregate", <<table_name, aggregate_query>>, response)
    /\ UNCHANGED <<host, facade>>

summarize ==
    /\ Ready
    /\ \E table_name \in Tables, summarize_query \in SearchQueries, response \in Responses :
         last' = Forward("summarize",
                         [table_name |-> table_name, summarize_query |-> summarize_query],
                         "data.summarize", <<table_name, summarize_query>>, response)
    /\ UNCHANGED <<host, facade>>

\* ------------------------------------------------------------- transaction

Operations == << [insert |-> [table |-> "Users", record |-> [name |-> "Ana"]]] >>

\* A payload is a list of operation dicts or a dict.
ListPayload == [kind |-> "list", value |-> Operations]
Payloads ==
    { ListPayload,
      [kind |-> "dict", value |-> [operations |-> ListPayload]],
      [kind |-> "dict", value |-> [insert |-> [table |-> "Users", record |-> [name |-> "Ana"]]]] }

\* Python's `key in payload`: a key of a dict; an element of a list, and no
\* dict of a list of dicts equals a string.
in_payload(key, payload) ==
    IF payload.kind = "dict" THEN key \in DOMAIN payload.value ELSE FALSE

\* transaction_payload wrapping whatever it is given.
transaction_payload_always_wraps(payload) ==
    [kind |-> "dict", value |-> [operations |-> payload]]

\* The payload transaction sends.
transaction_payload(payload) ==
    IF ~in_payload("operations", payload)
    THEN [kind |-> "dict", value |-> [operations |-> payload]]
    ELSE payload

transaction ==
    /\ Ready
    /\ \E payload \in Payloads, response \in Responses :
         last' = Forward("transaction", [payload |-> payload],
                         "records.transaction", <<transaction_payload(payload)>>, response)
    /\ UNCHANGED <<host, facade>>

\* --------------------------------------------------------------------- sql

Consistencies == {"strong", "eventual"}
SqlDefaultConsistency == "strong"

\* sql_query; consistency = <<>> stands for the argument being omitted.
sql_query ==
    /\ Ready
    /\ \E q \in {"SELECT 1"}, given \in {<<>>} \cup {<<Some(c)>> : c \in Consistencies} \cup {<<None>>},
          response \in Responses :
         LET consistency == IF given = <<>> THEN Some(SqlDefaultConsistency) ELSE given[1]
         IN  last' = Forward("sql_query", [query |-> q, given |-> given],
                             "sql.query",
                             IF pkg = XATADB
                             THEN [query |-> q, params |-> None, consistency |-> consistency]
                             ELSE IF given = <<>> THEN [query |-> q]
                             ELSE [query |-> q, consistency |-> given[1]],
                             response)
    /\ UNCHANGED <<host, facade>>

\* ---------------------------------------------------------------------- ai

askai ==
    /\ Ready
    /\ \E rules \in {None, Some(<<"be brief">>)}, options \in {None}, response \in Responses :
         LET r == IF rules = None THEN <<>> ELSE rules[1]
             o == IF options = None THEN [k \in {} |-> ""] ELSE options[1]
         IN  last' = Forward("askai",
                             [reference_table |-> "Users", question |-> "who?",
                              rules |-> rules, options |-> options],
                             "data.ask",
                             IF pkg = XATADB
                             THEN [table |-> "Users", question |-> "who?", rules |-> r,
                                   options |-> o, streaming_results |-> FALSE]
                             ELSE [table |-> "Users", question |-> "who?", rules |-> r,
                                   options |-> o],
                             response)
    /\ UNCHANGED <<host, facade>>

askai_follow_up ==
    /\ Ready
    /\ \E response \in Responses :
         last' = Forward("askai_follow_up",
                         [reference_table |-> "Users", question |-> "and?",
                          chatsessionid |-> "chat_1"],
                         "data.ask_follow_up",
                         IF pkg = XATADB
                         THEN [table |-> "Users", session |-> "chat_1", question |-> "and?",
                               streaming_results |-> FALSE]
                         ELSE [table |-> "Users", session |-> "chat_1", question |-> "and?"],
                         response)
    /\ UNCHANGED <<host, facade>>

bulk_insert ==
    /\ Ready
    /\ \E table_name \in Tables, records \in {<<[name |-> "Ana"]>>}, response \in Responses :
         last' = Forward("bulk_insert", [table_name |-> table_name, records |-> records],
                         "records.bulk_insert", <<table_name, [records |-> records]>>, response)
    /\ UNCHANGED <<host, facade>>

\* ------------------------------------------------------------------- files

FileArgs == [table_name |-> "Users", record_id |-> "rec_1", column_name |-> "photo"]
FileItemArgs == [table_name |-> "Users", record_id |-> "rec_1", column_name |-> "photos",
                 file_id |-> "file_1"]
DefaultContentType == "application/octet-stream"

upload_file ==
    /\ Ready
    /\ \E file_content \in {"bytes"}, response \in Responses :
         last' = Forward("upload_file", <<FileArgs, file_content, DefaultContentType>>,
                         "files.put", <<FileArgs, file_content, DefaultContentType>>, response)
    /\ UNCHANGED <<host, facade>>

append_file_to_array ==
    /\ Ready
    /\ \E file_content \in {"bytes"}, response \in Responses :
         last' = Forward("append_file_to_array", <<FileItemArgs, file_content>>,
                         "files.put_item",
                         IF pkg = XATADB
                         THEN <<FileItemArgs, file_content, DefaultContentType>>
                         ELSE <<FileItemArgs, file_content>>,
                         response)
    /\ UNCHANGED <<host, facade>>

get_file ==
    /\ Ready
    /\ \E response \in Responses :
         last' = Forward("get_file", <<FileArgs>>, "files.get", <<FileArgs>>, response)
    /\ UNCHANGED <<host, facade>>

get_file_from_array ==
    /\ Ready
    /\ \E response \in Responses :
         last' = Forward("get_file_from_array", <<FileItemArgs>>,
                         "files.get_item", <<FileItemArgs>>, response)
    /\ UNCHANGED <<host, facade>>

delete_file ==
    /\ Ready
    /\ \E response \in Responses :
         last' = Forward("delete_file", <<FileArgs>>, "files.delete", <<FileArgs>>, response)
    /\ UNCHANGED <<host, facade>>

delete_file_from_array ==
    /\ Ready
    /\ \E response \in Responses :
         last' = Forward("delete_file_from_array", <<FileItemArgs>>,
                         "files.delete_item", <<FileItemArgs>>, response)
    /\ UNCHANGED <<host, facade>>

\* What image_transform does with the result of the remote transform call.
image_transform_result(response) == Return("response", <<response>>)

image_transform ==
    /\ Ready
    /\ \E image_url \in {"https://img/1.png"}, transformations \in {[rotate |-> 90]},
          response \in Responses :
         LET c == _call_client(__secrets, None, None, client_kwargs)
             args == [image_url |-> image_url, transformations |-> transformations]
         IN  last' = IF c.kind = "raise"
                     THEN [op |-> "image_transform", args |-> args, client |-> c,
                           calls |-> <<>>, outcome |-> Raise(c.error)]
                     ELSE [op |-> "image_transform", args |-> args, client |-> c,
                           calls |-> <<RemoteCall("files.transform",
                                                  <<image_url, transformations>>, response)>>,
                           outcome |-> image_transform_result(response)]
    /\ UNCHANGED <<host, facade>>

\* -------------------------------------------------------------- pagination

\* A response of an earlier query, as far as the pagination helpers read it.
PageResponses == [has_more_results : BOOLEAN, cursor : {"cursor_1", "cursor_2"}]
PageSizes == {DefaultPageSize, 5}
PageOffsets == {None, Some(40)}
PageLimits == {None, Some(100)}
PageConsistencies == {None} \cup {Some(c) : c \in Consistencies}

\* page_request putting the cursor under "after" whatever the direction.
page_request_after_only(cursor_key, pagesize, cursor, offset, limit, consistency) ==
    LET keys == {"size", "after"}
                \cup (IF offset # None THEN {"offset"} ELSE {})
                \cup (IF limit # None THEN {"limit"} ELSE {})
                \cup (IF consistency # None THEN {"consistency"} ELSE {})
    IN  [k \in keys |->
            CASE k = "size" -> pagesize
              [] k = "after" -> cursor
              [] k = "offset" -> offset[1]
              [] k = "limit" -> limit[1]
              [] k = "consistency" -> consistency[1]]

\* The page object: size and the cursor under cursor_key, and offset, limit
\* and consistency when they are given.
page_request(cursor_key, pagesize, cursor, offset, limit, consistency) ==
    LET keys == {"size", cursor_key}
                \cup (IF offset # None THEN {"offset"} ELSE {})
                \cup (IF limit # None THEN {"limit"} ELSE {})
                \cup (IF consistency # None THEN {"consistency"} ELSE {})
    IN  [k \in keys |->
            CASE k = "size" -> pagesize
              [] k = cursor_key -> cursor
              [] k = "offset" -> offset[1]
              [] k = "limit" -> limit[1]
              [] k = "consistency" -> consistency[1]]

\* page without the has_more_results guard.
page_always_queries(op, cursor_key, table_name, response_prev, pagesize, offset, limit, consistency, response) ==
    LET c == _call_client(__secrets, None, None, client_kwargs)
        args == [table_name |-> table_name, response |-> response_prev,
                 pagesize |-> pagesize, offset |-> offset, limit |-> limit,
                 consistency |-> consistency]
        _next == page_request(cursor_key, pagesize, response_prev.cursor, offset, limit,
                              consistency)
    IN  IF c.kind = "raise"
        THEN [op |-> op, args |-> args, client |-> c, calls |-> <<>>,
              outcome |-> Raise(c.error)]
        ELSE [op |-> op, args |-> args, client |-> c,
              calls |-> <<RemoteCall("data.query", <<table_name, [page |-> _next]>>, response)>>,
              outcome |-> check_response(response)]

\* The body shared by next_page and prev_page.
page(op, cursor_key, table_name, response_prev, pagesize, offset, limit, consistency, response) ==
    LET c == _call_client(__secrets, None, None, client_kwargs)
        args == [table_name |-> table_name, response |-> response_prev,
                 pagesize |-> pagesize, offset |-> offset, limit |-> limit,
                 consistency |-> consistency]
        _next == page_request(cursor_key, pagesize, response_prev.cursor, offset, limit,
                              consistency)
    IN  IF c.kind = "raise"
        THEN [op |-> op, args |-> args, client |-> c, calls |-> <<>>,
              outcome |-> Raise(c.error)]
        ELSE IF response_prev.has_more_results
        THEN [op |-> op, args |-> args, client |-> c,
              calls |-> <<RemoteCall("data.query", <<table_name, [page |-> _next]>>, response)>>,
              outcome |-> check_response(response)]
        ELSE [op |-> op, args |-> args, client |-> c, calls |-> <<>>,
              outcome |-> Return("None", <<>>)]

next_page ==
    /\ Ready
    /\ \E table_name \in Tables, response_prev \in PageResponses, pagesize \in PageSizes,
          offset \in PageOffsets, limit \in PageLimits, consistency \in PageConsistencies,
          response \in Responses :
         last' = page("next_page", "after", table_name, response_prev, pagesize, offset,
                      limit, consistency, response)
    /\ UNCHANGED <<host, facade>>

prev_page ==
    /\ Ready
    /\ \E table_name \in Tables, response_after \in PageResponses, pagesize \in PageSizes,
          offset \in PageOffsets, limit \in PageLimits, consistency \in PageConsistencies,
          response \in Responses :
         last' = page("prev_page", "before", table_name, response_after, pagesize, offset,
                      limit, consistency, response)
    /\ UNCHANGED <<host, facade>>

\* ------------------------------------------------------------------ schema

Schemas == { [columns |-> <<[name |-> "name", type |-> "string"]>>] }

get_schema ==
    /\ Ready
    /\ \E table_name \in Tables, response \in Responses :
         last' = Forward("get_schema", [table_name |-> table_name],
                         "table.get_schema", <<table_name>>, response)
    /\ UNCHANGED <<host, facade>>

\* create_table_run checking the create response only after set-schema was issued.
create_table_run_late_check(table_name, schema, response1, response2) ==
    LET create == RemoteCall("table.create", <<table_name>>, response1)
        set_schema == RemoteCall("table.set_schema", <<table_name, schema>>, response2)
    IN  IF ~response1.is_success
        THEN [calls |-> <<create, set_schema>>,
              outcome |-> Raise(XataServerError(response1.status_code,
                                                response1.server_message))]
        ELSE IF ~response2.is_success
        THEN [calls |-> <<create, set_schema>>,
              outcome |-> Raise(XataServerError(response2.status_code,
                                                response2.server_message))]
        ELSE [calls |-> <<create, set_schema>>,
              outcome |-> Return("tuple", <<response1, response2>>)]

\* create_table_run deleting the table again when set-schema failed.
create_table_run_compensating(table_name, schema, response1, response2) ==
    LET create == RemoteCall("table.create", <<table_name>>, response1)
        set_schema == RemoteCall("table.set_schema", <<table_name, schema>>, response2)
        delete_again == RemoteCall("table.delete", <<table_name>>, response1)
    IN  IF ~response1.is_success
        THEN [calls |-> <<create>>,
              outcome |-> Raise(XataServerError(response1.status_code,
                                                response1.server_message))]
        ELSE IF ~response2.is_success
        THEN [calls |-> <<create, set_schema, delete_again>>,
              outcome |-> Raise(XataServerError(response2.status_code,
                                                response2.server_message))]
        ELSE [calls |-> <<create, set_schema>>,
              outcome |-> Return("tuple", <<response1, response2>>)]

\* The remote calls create_table issues, in order, and how it ends, given the
\* responses the create call and the set-schema call would get.
create_table_run(table_name, schema, response1, response2) ==
    LET create == RemoteCall("table.create", <<table_name>>, response1)
        set_schema == RemoteCall("table.set_schema", <<table_name, schema>>, response2)
    IN  IF ~response1.is_success
        THEN [calls |-> <<create>>,
              outcome |-> Raise(XataServerError(response1.status_code,
                                                response1.server_message))]
        ELSE IF ~response2.is_success
        THEN [calls |-> <<create, set_schema>>,
              outcome |-> Raise(XataServerError(response2.status_code,
                                                response2.server_message))]
        ELSE [calls |-> <<create, set_schema>>,
              outcome |-> Return("tuple", <<response1, response2>>)]

create_table ==
    /\ Ready
    /\ \E table_name \in Tables, schema \in Schemas, response1 \in Responses,
          response2 \in Responses :
         /\ response1.id # response2.id
         /\ LET c == _call_client(__secrets, None, None, client_kwargs)
                args == [table_name |-> table_name, schema |-> schema]
                run == create_table_run(table_name, schema, response1, response2)
            IN  last' = IF c.kind = "raise"
                        THEN [op |-> "create_table", args |-> args, client |-> c,
                              calls |-> <<>>, outcome |-> Raise(c.error)]
                        ELSE [op |-> "create_table", args |-> args, client |-> c,
                              calls |-> run.calls, outcome |-> run.outcome]
    /\ UNCHANGED <<host, facade>>

delete_table ==
    /\ Ready
    /\ \E table_name \in Tables, response \in Responses :
         last' = Forward("delete_table", [table_name |-> table_name],
                         "table.delete", <<table_name>>, response)
    /\ UNCHANGED <<host, facade>>

create_column ==
    /\ Ready
    /\ \E table_name \in Tables, column_config \in {[name |-> "age", type |-> "int"]},
          response \in Responses :
         last' = Forward("create_column",
                         [table_name |-> table_name, column_config |-> column_config],
                         "table.add_column", <<table_name, column_config>>, response)
    /\ UNCHANGED <<host, facade>>

delete_column ==
    /\ Ready
    /\ \E table_name \in Tables, column_name \in {"age"}, response \in Responses :
         last' = Forward("delete_column",
                         [table_name |-> table_name, column_name |-> column_name],
                         "table.delete_column", <<table_name, column_name>>, response)
    /\ UNCHANGED <<host, facade>>

get_columns ==
    /\ Ready
    /\ \E table_name \in Tables, response \in Responses :
         last' = Forward("get_columns", [table_name |-> table_name],
                         "table.get_columns", <<table_name>>, response)
    /\ UNCHANGED <<host, facade>>

\* ----------------------------------------------------------------- helpers

\* bulk_processor / bulk_transaction: a helper object built on a fresh client;
\* the facade itself issues no remote call.
helper(op, shape) ==
    LET c == _call_client(__secrets, None, None, client_kwargs)
    IN  [op |-> op, args |-> <<>>, client |-> c, calls |-> <<>>,
         outcome |-> IF c.kind = "raise" THEN Raise(c.error) ELSE Return(shape, <<>>)]

bulk_processor ==
    /\ Ready
    /\ last' = helper("bulk_processor", "BulkProcessor")
    /\ UNCHANGED <<host, facade>>

bulk_transaction ==
    /\ Ready
    /\ last' = helper("bulk_transaction", "Transaction")
    /\ UNCHANGED <<host, facade>>

\* api_request (st_xatadb_connection only)
api_request ==
    /\ Ready
    /\ pkg = XATADB
    /\ \E method \in {"GET"}, url \in {"/dbs"}, response \in Responses :
         last' = Forward("api_request", [method |-> method, url |-> url],
                         "ApiRequest.request",
                         [method |-> method, url |-> url, headers |-> None, payload |-> None,
                          data |-> None, is_streaming |-> FALSE],
                         response)
    /\ UNCHANGED <<host, facade>>

\* ---------------------------------------------------------------- fix_date
\* (st_xata_connection only)

\* A str is the sequence of its characters; "" stands for the end of a str. A
\* character that cannot be written in a string here is named by its code
\* point, as in "U+00A0".
DigitChars == <<"0", "1", "2", "3", "4", "5", "6", "7", "8", "9">>
AsciiDigits == {DigitChars[i] : i \in 1..10}

\* The decimal digits of Unicode (what \d matches in a str pattern), one row
\* per script, each row in the order of the digits' values.
DigitRows ==
    << DigitChars,
       <<"U+0660", "U+0661", "U+0662", "U+0663", "U+0664", "U+0665", "U+0666", "U+0667", "U+0668", "U+0669">>,
       <<"U+06F0", "U+06F1", "U+06F2", "U+06F3", "U+06F4", "U+06F5", "U+06F6", "U+06F7", "U+06F8", "U+06F9">>,
       <<"U+07C0", "U+07C1", "U+07C2", "U+07C3", "U+07C4", "U+07C5", "U+07C6", "U+07C7", "U+07C8", "U+07C9">>,
       <<"U+0966", "U+0967", "U+0968", "U+0969", "U+096A", "U+096B", "U+096C", "U+096D", "U+096E", "U+096F">>,
       <<"U+09E6", "U+09E7", "U+09E8", "U+09E9", "U+09EA", "U+09EB", "U+09EC", "U+09ED", "U+09EE", "U+09EF">>,
       <<"U+0A66", "U+0A67", "U+0A68", "U+0A69", "U+0A6A", "U+0A6B", "U+0A6C", "U+0A6D", "U+0A6E", "U+0A6F">>,
       <<"U+0AE6", "U+0AE7", "U+0AE8", "U+0AE9", "U+0AEA", "U+0AEB", "U+0AEC", "U+0AED", "U+0AEE", "U+0AEF">>,
       <<"U+0B66", "U+0B67", "U+0B68", "U+0B69", "U+0B6A", "U+0B6B", "U+0B6C", "U+0B6D", "U+0B6E", "U+0B6F">>,
       <<"U+0BE6", "U+0BE7", "U+0BE8", "U+0BE9", "U+0BEA", "U+0BEB", "U+0BEC", "U+0BED", "U+0BEE", "U+0BEF">>,
       <<"U+0C66", "U+0C67", "U+0C68", "U+0C69", "U+0C6A", "U+0C6B", "U+0C6C", "U+0C6D", "U+0C6E", "U+0C6F">>,
       <<"U+0CE6", "U+0CE7", "U+0CE8", "U+0CE9", "U+0CEA", "U+0CEB", "U+0CEC", "U+0CED", "U+0CEE", "U+0CEF">>,
       <<"U+0D66", "U+0D67", "U+0D68", "U+0D69", "U+0D6A", "U+0D6B", "U+0D6C", "U+0D6D", "U+0D6E", "U+0D6F">>,
       <<"U+0DE6", "U+0DE7", "U+0DE8", "U+0DE9", "U+0DEA", "U+0DEB", "U+0DEC", "U+0DED", "U+0DEE", "U+0DEF">>,
       <<"U+0E50", "U+0E51", "U+0E52", "U+0E53", "U+0E54", "U+0E55", "U+0E56", "U+0E57", "U+0E58", "U+0E59">>,
       <<"U+0ED0", "U+0ED1", "U+0ED2", "U+0ED3", "U+0ED4", "U+0ED5", "U+0ED6", "U+0ED7", "U+0ED8", "U+0ED9">>,
       <<"U+0F20", "U+0F21", "U+0F22", "U+0F23", "U+0F24", "U+0F25", "U+0F26", "U+0F27", "U+0F28", "U+0F29">>,
       <<"U+1040", "U+1041", "U+1042", "U+1043", "U+1044", "U+1045", "U+1046", "U+1047", "U+1048", "U+1049">>,
       <<"U+1090", "U+1091", "U+1092", "U+1093", "U+1094", "U+1095", "U+1096", "U+1097", "U+1098", "U+1099">>,
       <<"U+17E0", "U+17E1", "U+17E2", "U+17E3", "U+17E4", "U+17E5", "U+17E6", "U+17E7", "U+17E8", "U+17E9">>,
       <<"U+1810", "U+1811", "U+1812", "U+1813", "U+1814", "U+1815", "U+1816", "U+1817", "U+1818", "U+1819">>,
       <<"U+1946", "U+1947", "U+1948", "U+1949", "U+194A", "U+194B", "U+194C", "U+194D", "U+194E", "U+194F">>,
       <<"U+19D0", "U+19D1", "U+19D2", "U+19D3", "U+19D4", "U+19D5", "U+19D6", "U+19D7", "U+19D8", "U+19D9">>,
       <<"U+1A80", "U+1A81", "U+1A82", "U+1A83", "U+1A84", "U+1A85", "U+1A86", "U+1A87", "U+1A88", "U+1A89">>,
       <<"U+1A90", "U+1A91", "U+1A92", "U+1A93", "U+1A94", "U+1A95", "U+1A96", "U+1A97", "U+1A98", "U+1A99">>,
       <<"U+1B50", "U+1B51", "U+1B52", "U+1B53", "U+1B54", "U+1B55", "U+1B56", "U+1B57", "U+1B58", "U+1B59">>,
       <<"U+1BB0", "U+1BB1", "U+1BB2", "U+1BB3", "U+1BB4", "U+1BB5", "U+1BB6", "U+1BB7", "U+1BB8", "U+1BB9">>,
       <<"U+1C40", "U+1C41", "U+1C42", "U+1C43", "U+1C44", "U+1C45", "U+1C46", "U+1C47", "U+1C48", "U+1C49">>,
       <<"U+1C50", "U+1C51", "U+1C52", "U+1C53", "U+1C54", "U+1C55", "U+1C56", "U+1C57", "U+1C58", "U+1C59">>,
       <<"U+A620", "U+A621", "U+A622", "U+A623", "U+A624", "U+A625", "U+A626", "U+A627", "U+A628", "U+A629">>,
       <<"U+A8D0", "U+A8D1", "U+A8D2", "U+A8D3", "U+A8D4", "U+A8D5", "U+A8D6", "U+A8D7", "U+A8D8", "U+A8D9">>,
       <<"U+A900", "U+A901", "U+A902", "U+A903", "U+A904", "U+A905", "U+A906", "U+A907", "U+A908", "U+A909">>,
       <<"U+A9D0", "U+A9D1", "U+A9D2", "U+A9D3", "U+A9D4", "U+A9D5", "U+A9D6", "U+A9D7", "U+A9D8", "U+A9D9">>,
       <<"U+A9F0", "U+A9F1", "U+A9F2", "U+A9F3", "U+A9F4", "U+A9F5", "U+A9F6", "U+A9F7", "U+A9F8", "U+A9F9">>,
       <<"U+AA50", "U+AA51", "U+AA52", "U+AA53", "U+AA54", "U+AA55", "U+AA56", "U+AA57", "U+AA58", "U+AA59">>,
       <<"U+ABF0", "U+ABF1", "U+ABF2", "U+ABF3", "U+ABF4", "U+ABF5", "U+ABF6", "U+ABF7", "U+ABF8", "U+ABF9">>,
       <<"U+FF10", "U+FF11", "U+FF12", "U+FF13", "U+FF14", "U+FF15", "U+FF16", "U+FF17", "U+FF18", "U+FF19">>,
       <<"U+104A0", "U+104A1", "U+104A2", "U+104A3", "U+104A4", "U+104A5", "U+104A6", "U+104A7", "U+104A8", "U+104A9">>,
       <<"U+10D30", "U+10D31", "U+10D32", "U+10D33", "U+10D34", "U+10D35", "U+10D36", "U+10D37", "U+10D38", "U+10D39">>,
       <<"U+11066", "U+11067", "U+11068", "U+11069", "U+1106A", "U+1106B", "U+1106C", "U+1106D", "U+1106E", "U+1106F">>,
       <<"U+110F0", "U+110F1", "U+110F2", "U+110F3", "U+110F4", "U+110F5", "U+110F6", "U+110F7", "U+110F8", "U+110F9">>,
       <<"U+11136", "U+11137", "U+11138", "U+11139", "U+1113A", "U+1113B", "U+1113C", "U+1113D", "U+1113E", "U+1113F">>,
       <<"U+111D0", "U+111D1", "U+111D2", "U+111D3", "U+111D4", "U+111D5", "U+111D6", "U+111D7", "U+111D8", "U+111D9">>,
       <<"U+112F0", "U+112F1", "U+112F2", "U+112F3", "U+112F4", "U+112F5", "U+112F6", "U+112F7", "U+112F8", "U+112F9">>,
       <<"U+11450", "U+11451", "U+11452", "U+11453", "U+11454", "U+11455", "U+11456", "U+11457", "U+11458", "U+11459">>,
       <<"U+114D0", "U+114D1", "U+114D2", "U+114D3", "U+114D4", "U+114D5", "U+114D6", "U+114D7", "U+114D8", "U+114D9">>,
       <<"U+11650", "U+11651", "U+11652", "U+11653", "U+11654", "U+11655", "U+11656", "U+11657", "U+11658", "U+11659">>,
       <<"U+116C0", "U+116C1", "U+116C2", "U+116C3", "U+116C4", "U+116C5", "U+116C6", "U+116C7", "U+116C8", "U+116C9">>,
       <<"U+11730", "U+11731", "U+11732", "U+11733", "U+11734", "U+11735", "U+11736", "U+11737", "U+11738", "U+11739">>,
       <<"U+118E0", "U+118E1", "U+118E2", "U+118E3", "U+118E4", "U+118E5", "U+118E6", "U+118E7", "U+118E8", "U+118E9">>,
       <<"U+11950", "U+11951", "U+11952", "U+11953", "U+11954", "U+11955", "U+11956", "U+11957", "U+11958", "U+11959">>,
       <<"U+11C50", "U+11C51", "U+11C52", "U+11C53", "U+11C54", "U+11C55", "U+11C56", "U+11C57", "U+11C58", "U+11C59">>,
       <<"U+11D50", "U+11D51", "U+11D52", "U+11D53", "U+11D54", "U+11D55", "U+11D56", "U+11D57", "U+11D58", "U+11D59">>,
       <<"U+11DA0", "U+11DA1", "U+11DA2", "U+11DA3", "U+11DA4", "U+11DA5", "U+11DA6", "U+11DA7", "U+11DA8", "U+11DA9">>,
       <<"U+16A60", "U+16A61", "U+16A62", "U+16A63", "U+16A64", "U+16A65", "U+16A66", "U+16A67", "U+16A68", "U+16A69">>,
       <<"U+16AC0", "U+16AC1", "U+16AC2", "U+16AC3", "U+16AC4", "U+16AC5", "U+16AC6", "U+16AC7", "U+16AC8", "U+16AC9">>,
       <<"U+16B50", "U+16B51", "U+16B52", "U+16B53", "U+16B54", "U+16B55", "U+16B56", "U+16B57", "U+16B58", "U+16B59">>,
       <<"U+1D7CE", "U+1D7CF", "U+1D7D0", "U+1D7D1", "U+1D7D2", "U+1D7D3", "U+1D7D4", "U+1D7D5", "U+1D7D6", "U+1D7D7">>,
       <<"U+1D7D8", "U+1D7D9", "U+1D7DA", "U+1D7DB", "U+1D7DC", "U+1D7DD", "U+1D7DE", "U+1D7DF", "U+1D7E0", "U+1D7E1">>,
       <<"U+1D7E2", "U+1D7E3", "U+1D7E4", "U+1D7E5", "U+1D7E6", "U+1D7E7", "U+1D7E8", "U+1D7E9", "U+1D7EA", "U+1D7EB">>,
       <<"U+1D7EC", "U+1D7ED", "U+1D7EE", "U+1D7EF", "U+1D7F0", "U+1D7F1", "U+1D7F2", "U+1D7F3", "U+1D7F4", "U+1D7F5">>,
       <<"U+1D7F6", "U+1D7F7", "U+1D7F8", "U+1D7F9", "U+1D7FA", "U+1D7FB", "U+1D7FC", "U+1D7FD", "U+1D7FE", "U+1D7FF">>,
       <<"U+1E140", "U+1E141", "U+1E142", "U+1E143", "U+1E144", "U+1E145", "U+1E146", "U+1E147", "U+1E148", "U+1E149">>,
       <<"U+1E2F0", "U+1E2F1", "U+1E2F2", "U+1E2F3", "U+1E2F4", "U+1E2F5", "U+1E2F6", "U+1E2F7", "U+1E2F8", "U+1E2F9">>,
       <<"U+1E950", "U+1E951", "U+1E952", "U+1E953", "U+1E954", "U+1E955", "U+1E956", "U+1E957", "U+1E958", "U+1E959">>,
       <<"U+1FBF0", "U+1FBF1", "U+1FBF2", "U+1FBF3", "U+1FBF4", "U+1FBF5", "U+1FBF6", "U+1FBF7", "U+1FBF8", "U+1FBF9">> >>
Digits == {DigitRows[r][i] : r \in 1..Len(DigitRows), i \in 1..10}

\* The whitespace of Unicode (what \s matches in a str pattern).
Whitespace ==
    {"\t", "\n", "U+000B", "\f", "\r", "U+001C", "U+001D", "U+001E", "U+001F", " ", "U+0085",
     "U+00A0", "U+1680", "U+2000", "U+2001", "U+2002", "U+2003", "U+2004", "U+2005",
     "U+2006", "U+2007", "U+2008", "U+2009", "U+200A", "U+2028", "U+2029", "U+202F",
     "U+205F", "U+3000"}

\* int() of one decimal digit.
Num(c) == (CHOOSE i \in 1..10 : \E r \in 1..Len(DigitRows) : DigitRows[r][i] = c) - 1
At(s, i) == IF i \in 1..Len(s) THEN s[i] ELSE ""

ValueError(message) == [type |-> "ValueError", args |-> <<message>>]

\* The character class [lo-hi] of a regular expression: ASCII digits only.
Range(lo, hi) == {DigitChars[k + 1] : k \in lo..hi}

\* The regular expressions of the numeric directives, each a sequence of
\* alternatives tried in order, each alternative a sequence of character
\* classes.
\* %m: 1[0-2]|0[1-9]|[1-9]
Regex_m ==
    << <<Range(1, 1), Range(0, 2)>>, <<Range(0, 0), Range(1, 9)>>, <<Range(1, 9)>> >>
\* %d: 3[0-1]|[1-2]\d|0[1-9]|[1-9]| [1-9]
Regex_d ==
    << <<Range(3, 3), Range(0, 1)>>, <<Range(1, 2), Digits>>, <<Range(0, 0), Range(1, 9)>>,
       <<Range(1, 9)>>, <<{" "}, Range(1, 9)>> >>
\* %H: 2[0-3]|[0-1]\d|\d
Regex_H == << <<Range(2, 2), Range(0, 3)>>, <<Range(0, 1), Digits>>, <<Digits>> >>
\* %M: [0-5]\d|\d
Regex_M == << <<Range(0, 5), Digits>>, <<Digits>> >>
\* %S: 6[0-1]|[0-5]\d|\d
Regex_S == << <<Range(6, 6), Range(0, 1)>>, <<Range(0, 5), Digits>>, <<Digits>> >>

\* Whether the alternative matches the characters of s from position i on.
AltMatches(s, i, alt) == \A k \in 1..Len(alt) : At(s, i + k - 1) \in alt[k]

\* int() of the text a directive matched: its digits, a leading blank ignored.
RECURSIVE int(_)
int(text) ==
    IF text = <<>>
    THEN 0
    ELSE LET front == SubSeq(text, 1, Len(text) - 1)
             c == text[Len(text)]
         IN  IF c \in Digits THEN 10 * int(front) + Num(c) ELSE int(front)

\* One numeric directive read at position i: the first alternative of its
\* regular expression that matches there. A later alternative is never needed
\* after an earlier one matched: what follows a directive is a separator, and
\* no separator is a digit.
Field(s, i, regex) ==
    LET hits == {n \in 1..Len(regex) : AltMatches(s, i, regex[n])}
    IN  IF hits = {}
        THEN [ok |-> FALSE, value |-> 0, next |-> i]
        ELSE LET n == CHOOSE n \in hits : \A o \in hits : n <= o
                 next == i + Len(regex[n])
             IN  [ok |-> TRUE, value |-> int(SubSeq(s, i, next - 1)), next |-> next]

\* The blank of the format (\s+) takes one or more whitespace characters.
RECURSIVE SkipWhitespace(_, _)
SkipWhitespace(s, i) == IF At(s, i) \in Whitespace THEN SkipWhitespace(s, i + 1) ELSE i

DaysInMonth(year, month) ==
    IF month = 2
    THEN (IF (year % 4 = 0 /\ year % 100 # 0) \/ year % 400 = 0 THEN 29 ELSE 28)
    ELSE IF month \in {4, 6, 9, 11} THEN 30 ELSE 31

\* datetime.strptime(date, "%Y-%m-%d %H:%M:%S")
strptime(s) ==
    LET m == Field(s, 6, Regex_m)
        d == Field(s, m.next + 1, Regex_d)
        w == SkipWhitespace(s, d.next)
        H == Field(s, w, Regex_H)
        M == Field(s, H.next + 1, Regex_M)
        S == Field(s, M.next + 1, Regex_S)
        year == int(SubSeq(s, 1, 4))
        matched ==
            /\ \A k \in 1..4 : At(s, k) \in Digits
            /\ At(s, 5) = "-"
            /\ m.ok
            /\ At(s, m.next) = "-"
            /\ d.ok
            /\ w > d.next
            /\ H.ok
            /\ At(s, H.next) = ":"
            /\ M.ok
            /\ At(s, M.next) = ":"
            /\ S.ok
    IN  IF ~matched
        THEN Raise(ValueError("does not match format"))
        ELSE IF S.next # Len(s) + 1
        THEN Raise(ValueError("unconverted data remains"))
        ELSE IF year = 0
        THEN Raise(ValueError("year is out of range"))
        ELSE IF d.value > DaysInMonth(year, m.value)
        THEN Raise(ValueError("day is out of range for month"))
        ELSE IF S.value > 59
        THEN Raise(ValueError("second must be in 0..59"))
        ELSE Return("datetime",
                    Some([year |-> year, month |-> m.value, day |-> d.value,
                          hour |-> H.value, minute |-> M.value, second |-> S.value]))

Pad2(n) == <<DigitChars[(n \div 10) + 1], DigitChars[(n % 10) + 1]>>
Pad4(n) == Pad2(n \div 100) \o Pad2(n % 100)

\* The UTC offset of a time zone given in minutes; a naive datetime has none.
utcoffset(time_zone) ==
    IF time_zone = None
    THEN <<>>
    ELSE LET minutes == time_zone[1]
             size == IF minutes < 0 THEN 0 - minutes ELSE minutes
         IN  <<IF minutes < 0 THEN "-" ELSE "+">> \o Pad2(size \div 60) \o <<":">>
                 \o Pad2(size % 60)

\* to_rfc339(date, time_zone): the datetime with the time zone attached, in
\* ISO format.
to_rfc339(dt, time_zone) ==
    Pad4(dt.year) \o <<"-">> \o Pad2(dt.month) \o <<"-">> \o Pad2(dt.day) \o <<"T">>
        \o Pad2(dt.hour) \o <<":">> \o Pad2(dt.minute) \o <<":">> \o Pad2(dt.second)
        \o utcoffset(time_zone)

fix_date_result(date, time_zone) ==
    IF date.kind = "str"
    THEN LET parsed == strptime(date.value)
         IN  IF parsed.kind = "raise"
             THEN parsed
             ELSE Return("str", Some(to_rfc339(parsed.value[1], time_zone)))
    ELSE Return("str", Some(to_rfc339(date.value, time_zone)))

Str_BareDate == <<"2", "0", "2", "4", "-", "0", "1", "-", "1", "5">>
Str_DateTime == <<"2", "0", "2", "4", "-", "0", "1", "-", "1", "5", " ", "1", "0", ":", "3", "0", ":", "0", "0">>
Str_LeapDay == <<"2", "0", "2", "4", "-", "0", "2", "-", "2", "9", " ", "0", "0", ":", "0", "0", ":", "0", "0">>
Str_ShortFields == <<"2", "0", "2", "4", "-", "1", "-", "5", " ", "7", ":", "0", "5", ":", "0", "9">>
Str_WideGap == <<"2", "0", "2", "4", "-", "0", "1", "-", " ", "5", " ", "\t", "1", "0", ":", "3", "0", ":", "0", "0">>
Str_NoSuchDay == <<"2", "0", "2", "4", "-", "0", "2", "-", "3", "0", " ", "1", "0", ":", "3", "0", ":", "0", "0">>
Str_LeapSecond == <<"2", "0", "2", "4", "-", "0", "1", "-", "1", "5", " ", "1", "0", ":", "3", "0", ":", "6", "0">>
Str_Hour24 == <<"2", "0", "2", "4", "-", "0", "1", "-", "1", "5", " ", "2", "4", ":", "0", "0", ":", "0", "0">>
Str_IsoT == <<"2", "0", "2", "4", "-", "0", "1", "-", "1", "5", "T", "1", "0", ":", "3", "0", ":", "0", "0">>
Str_Slashes == <<"1", "5", "/", "0", "1", "/", "2", "0", "2", "4", " ", "1", "0", ":", "3", "0", ":", "0", "0">>
Str_Trailing == <<"2", "0", "2", "4", "-", "0", "1", "-", "1", "5", " ", "1", "0", ":", "3", "0", ":", "0", "0", " ">>
Str_Words == <<"t", "o", "d", "a", "y">>
Str_Empty == <<>>
Str_NewlineGap == <<"2", "0", "2", "4", "-", "0", "1", "-", "1", "5", "\n", "1", "0", ":", "3", "0", ":", "0", "0">>
Str_NoBreakGap == <<"2", "0", "2", "4", "-", "0", "1", "-", "1", "5", "\r", "U+00A0", "1", "0", ":", "3", "0", ":", "0", "0">>
Str_FullWidthYear == <<"U+FF12", "U+FF10", "U+FF12", "U+FF14", "-", "0", "1", "-", "1", "5", " ", "1", "0", ":", "3", "0", ":", "0", "0">>
Str_ArabicIndic == <<"2", "0", "2", "4", "-", "0", "1", "-", "1", "U+0665", " ", "U+0667", ":", "3", "U+0660", ":", "0", "U+0669">>
Str_FullWidthMonth == <<"2", "0", "2", "4", "-", "U+FF10", "U+FF11", "-", "1", "5", " ", "1", "0", ":", "3", "0", ":", "0", "0">>
DateStrings == {Str_BareDate, Str_DateTime, Str_LeapDay, Str_ShortFields, Str_WideGap, Str_NoSuchDay, Str_LeapSecond, Str_Hour24, Str_IsoT, Str_Slashes, Str_Trailing, Str_Words, Str_Empty, Str_NewlineGap, Str_NoBreakGap, Str_FullWidthYear, Str_ArabicIndic, Str_FullWidthMonth}
Datetimes ==
    {[year |-> 2024, month |-> 1, day |-> 15, hour |-> 10, minute |-> 30, second |-> 0]}
DateArgs ==
    {[kind |-> "str", value |-> s] : s \in DateStrings}
        \cup {[kind |-> "datetime", value |-> dt] : dt \in Datetimes}
UTC == Some(0)
TimeZones == {UTC, Some(120), Some(0 - 330), None}

fix_date ==
    /\ Ready
    /\ pkg = XATA
    /\ \E date \in DateArgs, time_zone \in TimeZones :
         last' = [op |-> "fix_date", args |-> [date |-> date, time_zone |-> time_zone],
                  client |-> NoClient, calls |-> <<>>,
                  outcome |-> fix_date_result(date, time_zone)]
    /\ UNCHANGED <<host, facade>>

\* ------------------------------------------------------ concurrent callers

\* One instance is shared by the threads of the host's sessions; each runs a
\* method body statement by statement: `self._call_client(**self.client_kwargs)`
\* reads the options, resolves the api key, resolves the db_url and constructs
\* the client; then comes the remote call and the inspection of its response.
Threads == {"thread_1", "thread_2"}
ThreadOps == {"query", "get_schema"}
NoKey == [found |-> FALSE, value |-> None]
NoOperation ==
    [pc |-> "idle", op |-> "none", alone |-> NoClient, kwargs |-> None, key |-> NoKey,
     client |-> NoClient, outcome |-> Idle.outcome]

\* A thread enters a method; alone is the client the method would build were
\* it to run to its end at once.
thread_enter(t) ==
    /\ Constructed
    /\ threads[t].pc = "idle"
    /\ \E op \in ThreadOps :
         threads' = [threads EXCEPT ![t] =
                        [NoOperation EXCEPT !.pc = "entered", !.op = op,
                            !.alone = _call_client(__secrets, None, None, client_kwargs)]]
    /\ UNCHANGED <<host, fields, at_connect, last>>

\* resolve_api_key reading the api key by taking it out of the environment.
thread_resolve_api_key_popping(t) ==
    /\ threads[t].pc = "entered"
    /\ LET key == resolve_api_key(__secrets, None)
       IN  threads' = [threads EXCEPT ![t] =
                          IF key.found
                          THEN [@ EXCEPT !.pc = "key", !.kwargs = client_kwargs, !.key = key]
                          ELSE [@ EXCEPT !.pc = "done", !.kwargs = client_kwargs,
                                   !.client = [kind |-> "raise", args |-> <<>>,
                                               error |-> ConnectionRefusedError],
                                   !.outcome = Raise(ConnectionRefusedError)]]
    /\ environ' = [k \in DOMAIN environ \ {API_KEY} |-> environ[k]]
    /\ UNCHANGED <<pkg, secrets, fields, at_connect, last>>

\* The thread reads self.client_kwargs and resolves the api key, or raises.
thread_resolve_api_key(t) ==
    /\ threads[t].pc = "entered"
    /\ LET key == resolve_api_key(__secrets, None)
       IN  threads' = [threads EXCEPT ![t] =
                          IF key.found
                          THEN [@ EXCEPT !.pc = "key", !.kwargs = client_kwargs, !.key = key]
                          ELSE [@ EXCEPT !.pc = "done", !.kwargs = client_kwargs,
                                   !.client = [kind |-> "raise", args |-> <<>>,
                                               error |-> ConnectionRefusedError],
                                   !.outcome = Raise(ConnectionRefusedError)]]
    /\ UNCHANGED <<host, fields, at_connect, last>>

\* The thread resolves the db_url and constructs its client.
thread_construct_client(t) ==
    /\ threads[t].pc = "key"
    /\ threads' = [threads EXCEPT ![t] =
                      [@ EXCEPT !.pc = "client",
                          !.client = XataClient(threads[t].key.value,
                                                resolve_db_url(__secrets, None),
                                                threads[t].kwargs)]]
    /\ UNCHANGED <<host, fields, at_connect, last>>

\* The thread issues its remote call and inspects the response.
thread_remote_call(t) ==
    /\ threads[t].pc = "client"
    /\ \E response \in Responses :
         threads' = [threads EXCEPT ![t] =
                        [@ EXCEPT !.pc = "done", !.outcome = check_response(response)]]
    /\ UNCHANGED <<host, fields, at_connect, last>>

\* The method returns or raises to the thread's caller.
thread_return(t) ==
    /\ threads[t].pc = "done"
    /\ threads' = [threads EXCEPT ![t] = NoOperation]
    /\ UNCHANGED <<host, fields, at_connect, last>>

\* ------------------------------------------------- remote calls that raise

\* A remote call either answers with a response object or raises: the SDK
\* raises for a broken connection and for the status codes it rejects itself.
RemoteExceptions ==
    { [type |-> "ConnectionError", args |-> <<"connection reset">>],
      [type |-> "RateLimitError", args |-> <<"code: 429, rate limited">>] }

\* What stands in the call log for the response of a call that raised.
Raised(error) == [raised |-> error]
IsRaised(result) == "raised" \in DOMAIN result

RemoteResults == Responses \cup { Raised(e) : e \in RemoteExceptions }

\* ForwardOrRaise with the remote call wrapped in try/except, returning None.
ForwardOrRaise_swallowing(op, args, remote, rargs, result) ==
    LET c == _call_client(__secrets, None, None, client_kwargs)
    IN  IF c.kind = "raise"
        THEN [op |-> op, args |-> args, client |-> c, calls |-> <<>>,
              outcome |-> Raise(c.error)]
        ELSE IF IsRaised(result)
        THEN [op |-> op, args |-> args, client |-> c,
              calls |-> <<RemoteCall(remote, rargs, result)>>,
              outcome |-> Return("None", <<>>)]
        ELSE [op |-> op, args |-> args, client |-> c,
              calls |-> <<RemoteCall(remote, rargs, result)>>,
              outcome |-> check_response(result)]

\* The body of a single-call method when the remote call may raise: there is
\* no try statement, so the exception leaves the method at the call.
ForwardOrRaise(op, args, remote, rargs, result) ==
    LET c == _call_client(__secrets, None, None, client_kwargs)
    IN  IF c.kind = "raise"
        THEN [op |-> op, args |-> args, client |-> c, calls |-> <<>>,
              outcome |-> Raise(c.error)]
        ELSE IF IsRaised(result)
        THEN [op |-> op, args |-> args, client |-> c,
              calls |-> <<RemoteCall(remote, rargs, result)>>,
              outcome |-> Raise(result.raised)]
        ELSE [op |-> op, args |-> args, client |-> c,
              calls |-> <<RemoteCall(remote, rargs, result)>>,
              outcome |-> check_response(result)]

\* query against a remote service that may raise.
query_or_raise ==
    /\ Ready
    /\ \E table_name \in Tables, full_query \in {None}, result \in RemoteResults :
         last' = ForwardOrRaise("query",
                                [table_name |-> table_name, full_query |-> full_query],
                                "data.query", <<table_name, full_query>>, result)
    /\ UNCHANGED <<host, facade>>

\* get against a remote service that may raise.
get_or_raise ==
    /\ Ready
    /\ \E table_name \in Tables, record_id \in RecordIds, columns \in Columns,
          result \in RemoteResults :
         last' = ForwardOrRaise("get",
                                [table_name |-> table_name, record_id |-> record_id,
                                 columns |-> columns],
                                "records.get", <<table_name, record_id, columns>>, result)
    /\ UNCHANGED <<host, facade>>

\* create_table's calls and outcome when either remote call may raise.
create_table_run_or_raise(table_name, schema, result1, result2) ==
    LET create == RemoteCall("table.create", <<table_name>>, result1)
        set_schema == RemoteCall("table.set_schema", <<table_name, schema>>, result2)
    IN  IF IsRaised(result1)
        THEN [calls |-> <<create>>, outcome |-> Raise(result1.raised)]
        ELSE IF ~result1.is_success
        THEN [calls |-> <<create>>,
              outcome |-> Raise(XataServerError(result1.status_code,
                                                result1.server_message))]
        ELSE IF IsRaised(result2)
        THEN [calls |-> <<create, set_schema>>, outcome |-> Raise(result2.raised)]
        ELSE IF ~result2.is_success
        THEN [calls |-> <<create, set_schema>>,
              outcome |-> Raise(XataServerError(result2.status_code,
                                                result2.server_message))]
        ELSE [calls |-> <<create, set_schema>>,
              outcome |-> Return("tuple", <<result1, result2>>)]

\* create_table against a remote service that may raise.
create_table_or_raise ==
    /\ Ready
    /\ \E table_name \in Tables, schema \in Schemas, result1 \in RemoteResults,
          result2 \in RemoteResults :
         /\ IF IsRaised(result1) \/ IsRaised(result2) THEN TRUE
            ELSE result1.id # result2.id
         /\ LET c == _call_client(__secrets, None, None, client_kwargs)
                args == [table_name |-> table_name, schema |-> schema]
                run == create_table_run_or_raise(table_name, schema, result1, result2)
            IN  last' = IF c.kind = "raise"
                        THEN [op |-> "create_table", args |-> args, client |-> c,
                              calls |-> <<>>, outcome |-> Raise(c.error)]
                        ELSE [op |-> "create_table", args |-> args, client |-> c,
                              calls |-> run.calls, outcome |-> run.outcome]
    /\ UNCHANGED <<host, facade>>

\* ------------------------------------------------------------------- spec

Init ==
    /\ pkg \in Packages
    /\ secrets \in SecretsStores
    /\ environ \in Environments
    /\ client_kwargs = None
    /\ __secrets = None
    /\ _table_names = None
    /\ attrs = None
    /\ connect_outcome = "not_called"
    /\ at_connect = [tracking |-> FALSE, client |-> NoClient, previous |-> NoClient]
    /\ threads = [t \in Threads |-> NoOperation]
    /\ last = Idle

Next ==
    \/ _connect
    \/ _connect_xata
    \/ ReturnToCaller
    \/ SecretsChange
    \/ EnvironChange
    \/ query
    \/ get
    \/ insert
    \/ upsert
    \/ update
    \/ delete
    \/ search
    \/ search_on_table
    \/ vector_search
    \/ aggregate
    \/ summarize
    \/ transaction
    \/ sql_query
    \/ askai
    \/ askai_follow_up
    \/ bulk_insert
    \/ upload_file
    \/ append_file_to_array
    \/ get_file
    \/ get_file_from_array
    \/ delete_file
    \/ delete_file_from_array
    \/ image_transform
    \/ next_page
    \/ prev_page
    \/ get_schema
    \/ create_table
    \/ delete_table
    \/ create_column
    \/ delete_column
    \/ get_columns
    \/ bulk_processor
    \/ bulk_transaction
    \/ api_request
    \/ fix_date

Spec == Init /\ [][Next]_vars

\* The same instance with the client of the connect step kept in at_connect,
\* driven through the connect step, changes of the host's configuration and
\* the operations on records and schemas.
InitHistory ==
    /\ pkg \in Packages
    /\ secrets \in SecretsStores
    /\ environ \in Environments
    /\ client_kwargs = None
    /\ __secrets = None
    /\ _table_names = None
    /\ attrs = None
    /\ connect_outcome = "not_called"
    /\ at_connect = [tracking |-> TRUE, client |-> NoClient, previous |-> NoClient]
    /\ threads = [t \in Threads |-> NoOperation]
    /\ last = Idle

NextHistory ==
    \/ _connect
    \/ _connect_xata
    \/ ReturnToCaller
    \/ SecretsChange
    \/ EnvironChange
    \/ query
    \/ get
    \/ insert
    \/ get_schema
    \/ bulk_processor

SpecHistory == InitHistory /\ [][NextHistory]_vars

\* The connected instance with two threads running operations concurrently.
NextConcurrent ==
    \/ _connect
    \/ _connect_xata
    \/ \E t \in Threads : thread_enter(t)
    \/ \E t \in Threads : thread_resolve_api_key(t)
    \/ \E t \in Threads : thread_construct_client(t)
    \/ \E t \in Threads : thread_remote_call(t)
    \/ \E t \in Threads : thread_return(t)

SpecConcurrent == Init /\ [][NextConcurrent]_vars

\* The instance against a remote service whose calls may raise.
NextRemoteErrors ==
    \/ _connect
    \/ _connect_xata
    \/ ReturnToCaller
    \/ SecretsChange
    \/ EnvironChange
    \/ query_or_raise
    \/ get_or_raise
    \/ create_table_or_raise

SpecRemoteErrors == Init /\ [][NextRemoteErrors]_vars

\* ================================================================== claims

\* The methods that inspect the response of their single remote call.
CheckedOps ==
    {"query", "get", "insert", "upsert", "update", "delete", "search", "search_on_table",
     "vector_search", "aggregate", "summarize", "transaction", "sql_query", "askai",
     "askai_follow_up", "bulk_insert", "upload_file", "append_file_to_array", "get_file",
     "get_file_from_array", "delete_file", "delete_file_from_array", "get_schema",
     "delete_table", "create_column", "delete_column", "get_columns", "api_request"}

\* The methods that issue at most one remote call and hand back its response.
SingleCallOps == CheckedOps \cup {"image_transform", "next_page", "prev_page"}

\* Every method a caller invokes on the connected facade.
FacadeOps == SingleCallOps \cup {"create_table", "bulk_processor", "bulk_transaction"}

\* The call recorded in last is one that obtains a client from the resolver
\* (fix_date does not).
ResolverCalled == last.op \in FacadeOps \cup {"_connect"}

\* The explicit credentials of the resolver call recorded in last: _connect
\* passes its own arguments on, every other method passes none.
ExplicitKey == IF last.op = "_connect" THEN last.args.api_key ELSE None
ExplicitUrl == IF last.op = "_connect" THEN last.args.db_url ELSE None

\* The db_url the client constructor was handed; None when it got none.
HandedDbUrl ==
    IF "db_url" \in DOMAIN last.client.args THEN last.client.args.db_url ELSE None

\* C1: within one resolver call the api_key (and likewise the db_url) handed to
\* the client constructor is the explicit argument if given, otherwise the
\* secrets-store entry if present, otherwise the environment variable.
C1_ResolverPrecedence ==
    (last.op # "none" /\ last.client.kind = "client") =>
        /\ ExplicitKey # None => last.client.args.api_key = ExplicitKey
        /\ (ExplicitKey = None /\ API_KEY \in DOMAIN secrets) =>
              last.client.args.api_key = secrets[API_KEY]
        /\ (ExplicitKey = None /\ API_KEY \notin DOMAIN secrets /\ API_KEY \in DOMAIN environ) =>
              last.client.args.api_key = Some(environ[API_KEY])
        /\ ExplicitUrl # None => HandedDbUrl = ExplicitUrl
        /\ (ExplicitUrl = None /\ DB_URL \in DOMAIN secrets) => HandedDbUrl = secrets[DB_URL]
        /\ (ExplicitUrl = None /\ DB_URL \notin DOMAIN secrets /\ DB_URL \in DOMAIN environ) =>
              HandedDbUrl = Some(environ[DB_URL])

\* C1 witness: a resolver call without explicit credentials, with the api key
\* in both the secrets store and the environment, built its client with the
\* secrets entry.
C1_Witness ==
    /\ last.op = "query"
    /\ last.client.kind = "client"
    /\ API_KEY \in DOMAIN secrets /\ API_KEY \in DOMAIN environ
    /\ secrets[API_KEY] = Some("key_secrets")
    /\ last.client.args.api_key = Some("key_secrets")

\* C2: after _connect with explicit non-None api_key and db_url, every later
\* facade operation constructs its client with exactly those two values,
\* whatever the secrets store and the environment contain.
C2_ConnectCredentialsUsedByEveryOperation ==
    (/\ last.op \in FacadeOps
     /\ __secrets[API_KEY] # None
     /\ __secrets[DB_URL] # None) =>
        /\ last.client.kind = "client"
        /\ last.client.args.api_key = __secrets[API_KEY]
        /\ HandedDbUrl = __secrets[DB_URL]

\* No source has an api key: no secrets entry, no environment variable, none
\* given at connect time.
NoApiKeyAnywhere ==
    /\ API_KEY \notin DOMAIN secrets
    /\ API_KEY \notin DOMAIN environ
    /\ __secrets[API_KEY] = None

\* C3: when no api_key is available from any source the resolver raises
\* ConnectionRefusedError without constructing a client, and the method that
\* called it raises that error and issues no remote call.
C3_NoApiKeyRaises ==
    (ResolverCalled /\ NoApiKeyAnywhere) =>
        /\ last.client.kind = "raise"
        /\ last.client.error = ConnectionRefusedError
        /\ last.calls = <<>>
        /\ last.outcome = Raise(ConnectionRefusedError)

\* C3 witness: a facade operation was invoked with no api key anywhere and
\* raised the configuration error.
C3_Witness ==
    /\ last.op = "insert"
    /\ NoApiKeyAnywhere
    /\ last.outcome.kind = "raise"
    /\ last.outcome.error.type = "ConnectionRefusedError"

\* C4: whenever a facade operation reaches its remote call, the api_key passed
\* to the client constructor is a non-empty string.
C4_RemoteCallHasNonEmptyApiKey ==
    (last.op \in FacadeOps /\ last.calls # <<>>) =>
        /\ last.client.args.api_key # None
        /\ last.client.args.api_key # Some("")

\* C5: for every method that checks the response, a remote call whose response
\* reports failure makes the method raise XataServerError with that response's
\* status code and server message, returning no value.
C5_FailureRaisesXataServerError ==
    (/\ last.op \in CheckedOps
     /\ Len(last.calls) = 1
     /\ ~last.calls[1].response.is_success) =>
        /\ last.outcome.kind = "raise"
        /\ last.outcome.error =
              XataServerError(last.calls[1].response.status_code,
                              last.calls[1].response.server_message)
        /\ last.outcome.value = <<>>

\* C5 witness: api_request got a 404 response and raised.
C5_Witness ==
    /\ last.op = "api_request"
    /\ Len(last.calls) = 1
    /\ last.calls[1].response.status_code = 404
    /\ last.outcome.kind = "raise"

\* C6: image_transform inspects the result of the remote transform call and
\* raises XataServerError with its status code and message when it reports
\* failure.
C6_ImageTransformChecksResult ==
    (/\ last.op = "image_transform"
     /\ Len(last.calls) = 1
     /\ ~last.calls[1].response.is_success) =>
        /\ last.outcome.kind = "raise"
        /\ last.outcome.error =
              XataServerError(last.calls[1].response.status_code,
                              last.calls[1].response.server_message)

\* The fields of the facade hold configuration only.
FacadeHoldsNoResponse ==
    /\ attrs = None
    /\ _table_names = None
    /\ client_kwargs \in ClientKwargs
    /\ __secrets \in [{API_KEY, DB_URL} -> ExplicitKeys \cup ExplicitUrls]

\* C7: for every single-call method, a remote call whose response reports
\* success makes the method return that very response object, and the facade
\* keeps no copy of it.
C7_SuccessReturnsTheResponse ==
    (/\ last.op \in SingleCallOps
     /\ Len(last.calls) = 1
     /\ last.calls[1].response.is_success) =>
        /\ last.outcome.kind = "return"
        /\ last.outcome.shape = "response"
        /\ last.outcome.value = <<last.calls[1].response>>
        /\ FacadeHoldsNoResponse

\* C7 witness: get returned the successful response it received.
C7_Witness ==
    /\ last.op = "get"
    /\ Len(last.calls) = 1
    /\ last.calls[1].response.is_success
    /\ last.outcome.value = <<last.calls[1].response>>

\* C8: create_table issues the create-table call first; a failed create
\* response is raised at once and set-schema is never issued; set-schema is
\* issued only after a successful create-table response, never before it.
C8_CreateTableStopsAfterFailedCreate ==
    (last.op = "create_table" /\ last.client.kind = "client") =>
        /\ Len(last.calls) >= 1
        /\ last.calls[1].remote = "table.create"
        /\ ~last.calls[1].response.is_success =>
              /\ Len(last.calls) = 1
              /\ last.outcome =
                    Raise(XataServerError(last.calls[1].response.status_code,
                                          last.calls[1].response.server_message))
        /\ \A i \in DOMAIN last.calls :
              last.calls[i].remote = "table.set_schema" =>
                  /\ i = 2
                  /\ last.calls[1].remote = "table.create"
                  /\ last.calls[1].response.is_success

\* C8 witness: the create call failed and create_table raised after that one
\* call.
C8_Witness ==
    /\ last.op = "create_table"
    /\ Len(last.calls) = 1
    /\ ~last.calls[1].response.is_success
    /\ last.outcome.kind = "raise"

\* C9: when the response passed in reports no more results, next_page and
\* prev_page issue no remote query and, having obtained their client, return
\* None, for every pagesize, offset, limit and consistency.
C9_NoMoreResultsNoQuery ==
    (/\ last.op \in {"next_page", "prev_page"}
     /\ ~last.args.response.has_more_results) =>
        /\ last.calls = <<>>
        /\ last.client.kind = "client" => last.outcome = Return("None", <<>>)

\* C9 witness: prev_page, given a response without more results and a
\* consistency level, returned None without a remote call.
C9_Witness ==
    /\ last.op = "prev_page"
    /\ ~last.args.response.has_more_results
    /\ last.args.consistency = Some("eventual")
    /\ last.args.offset # None
    /\ last.calls = <<>>
    /\ last.outcome = Return("None", <<>>)

\* C10: in st_xatadb_connection, insert with record_id, create_only, if_version
\* and columns all omitted issues the server-assigned-id insert, and insert
\* with a non-None record_id issues insert_with_id with exactly that id.
C10_InsertPathXatadb ==
    (pkg = XATADB /\ last.op = "insert" /\ last.client.kind = "client") =>
        /\ Len(last.calls) = 1
        /\ (/\ last.args.record_id = None
            /\ last.args.create_only = None
            /\ last.args.if_version = None
            /\ last.args.columns = None) =>
              /\ last.calls[1].remote = "records.insert"
              /\ last.calls[1].args =
                    [table_name |-> last.args.table_name, payload |-> last.args.record]
        /\ last.args.record_id # None =>
              /\ last.calls[1].remote = "records.insert_with_id"
              /\ last.calls[1].args.record_id = last.args.record_id[1]

\* C10 witness: insert with only a record_id issued insert_with_id with it.
C10_Witness ==
    /\ pkg = XATADB
    /\ last.op = "insert"
    /\ last.args.record_id = Some("rec_1")
    /\ last.args.create_only = None
    /\ last.args.if_version = None
    /\ last.args.columns = None
    /\ Len(last.calls) = 1
    /\ last.calls[1].remote = "records.insert_with_id"
    /\ last.calls[1].args.record_id = "rec_1"

\* C11: in st_xata_connection, insert with a non-None record_id and
\* create_only, if_version and columns all omitted issues insert_with_id with
\* that id; the record_id is never dropped for the server-assigned-id path.
C11_InsertWithRecordIdXata ==
    (/\ pkg = XATA
     /\ last.op = "insert"
     /\ last.client.kind = "client"
     /\ last.args.record_id # None
     /\ last.args.create_only = None
     /\ last.args.if_version = None
     /\ last.args.columns = None) =>
        /\ Len(last.calls) = 1
        /\ last.calls[1].remote = "records.insert_with_id"
        /\ last.calls[1].args.record_id = last.args.record_id[1]

\* C12: every facade operation issues at most one remote call, create_table at
\* most two; a remote call whose response reports failure is the last call of
\* the operation, and the operation ends by raising that response's error to
\* its caller.
C12_AtMostOneCallNoRetry ==
    last.op \in FacadeOps =>
        /\ Len(last.calls) <= (IF last.op = "create_table" THEN 2 ELSE 1)
        /\ \A i \in DOMAIN last.calls :
              ~last.calls[i].response.is_success =>
                  /\ i = Len(last.calls)
                  /\ last.outcome =
                        Raise(XataServerError(last.calls[i].response.status_code,
                                              last.calls[i].response.server_message))

\* C13: in st_xata_connection, a connect step that resolves an api_key and
\* constructs its first client completes without raising.
C13_XataConnectCompletes ==
    (pkg = XATA /\ last.op = "_connect" /\ last.client.kind = "client") =>
        /\ last.outcome.kind = "return"
        /\ connect_outcome = "returned"

\* Some source has an api key for a resolver call without explicit arguments.
ApiKeyResolvable ==
    \/ API_KEY \in DOMAIN secrets
    \/ API_KEY \in DOMAIN environ
    \/ __secrets[API_KEY] # None

\* No source has a db_url: no secrets entry, no environment variable, none
\* given at connect time.
NoDbUrlAnywhere ==
    /\ DB_URL \notin DOMAIN secrets
    /\ DB_URL \notin DOMAIN environ
    /\ __secrets[DB_URL] = None

\* C14: when db_url is absent from every source while an api_key is
\* resolvable, the resolver raises no error and constructs the client with the
\* api_key and the passthrough options only, without a db_url argument.
C14_NoDbUrlIsNotFatal ==
    (ResolverCalled /\ NoDbUrlAnywhere /\ ApiKeyResolvable) =>
        /\ last.client.kind = "client"
        /\ DOMAIN last.client.args = {"api_key", "kwargs"}
        /\ last.client.args.kwargs = client_kwargs

\* C14 witness: with an api key in the environment only and no db_url
\* anywhere, get_schema obtained a client built without a db_url and went on
\* to its remote call.
C14_Witness ==
    /\ last.op = "get_schema"
    /\ NoDbUrlAnywhere
    /\ API_KEY \notin DOMAIN secrets
    /\ API_KEY \in DOMAIN environ
    /\ last.client.kind = "client"
    /\ "db_url" \notin DOMAIN last.client.args
    /\ client_kwargs = [branch_name |-> "dev"]
    /\ Len(last.calls) = 1

\* The date argument of the fix_date call recorded in last, when it is a str.
FixDateOfStr == last.op = "fix_date" /\ last.args.date.kind = "str"
DateChars == last.args.date.value

\* The character classes of a str: a digit 0-9 is "d", any other character
\* "x"; "-", ":" and the space stand for themselves.
CharClass(c) ==
    IF c \in AsciiDigits THEN "d" ELSE IF c \in {"-", ":", " "} THEN c ELSE "x"
Classes(s) == [i \in 1..Len(s) |-> CharClass(s[i])]

\* YYYY-MM-DD and YYYY-MM-DD HH:MM:SS as written, every field at full width.
BareDateForm == <<"d", "d", "d", "d", "-", "d", "d", "-", "d", "d">>
DateTimeForm == BareDateForm \o <<" ", "d", "d", ":", "d", "d", ":", "d", "d">>

\* The digits of s from position i to position j as a number.
RECURSIVE Number(_, _, _)
Number(s, i, j) == IF j < i THEN 0 ELSE 10 * Number(s, i, j - 1) + Num(s[j])

\* A str of one of the two forms that names a real calendar date and time.
RealDate(s) ==
    /\ Classes(s) \in {BareDateForm, DateTimeForm}
    /\ Number(s, 1, 4) >= 1
    /\ Number(s, 6, 7) \in 1..12
    /\ Number(s, 9, 10) \in 1..DaysInMonth(Number(s, 1, 4), Number(s, 6, 7))
    /\ Len(s) = Len(DateTimeForm) =>
          /\ Number(s, 12, 13) \in 0..23
          /\ Number(s, 15, 16) \in 0..59
          /\ Number(s, 18, 19) \in 0..59

Midnight == <<"0", "0", ":", "0", "0", ":", "0", "0">>

\* The canonical timestamp of a str of one of the two forms, without offset:
\* its date, "T", and its time of day (midnight for a bare date).
Canonical(s) ==
    SubSeq(s, 1, 10) \o <<"T">>
        \o (IF Len(s) = Len(DateTimeForm) THEN SubSeq(s, 12, 19) ELSE Midnight)

\* C16: fix_date accepts both the bare calendar-date form YYYY-MM-DD and the
\* date-plus-time form YYYY-MM-DD HH:MM:SS: for a str of either form it returns
\* the RFC 3339 timestamp of that date (and time) in the given time zone, with
\* offset +00:00 for UTC.
C16_FixDateAcceptsBothForms ==
    (FixDateOfStr /\ RealDate(DateChars)) =>
        /\ last.outcome.kind = "return"
        /\ last.outcome.shape = "str"
        /\ SubSeq(last.outcome.value[1], 1, 19) = Canonical(DateChars)
        /\ last.args.time_zone = UTC =>
              last.outcome.value[1] = Canonical(DateChars) \o <<"+", "0", "0", ":", "0", "0">>

\* A str that is written in neither of the two forms.
MatchesNeitherPattern(s) == Classes(s) \notin {BareDateForm, DateTimeForm}

\* C17: for every str that matches neither the calendar-date pattern
\* YYYY-MM-DD nor the date-plus-time pattern YYYY-MM-DD HH:MM:SS, fix_date
\* raises a ValueError and returns no value: it neither passes the str through
\* nor reads it in another format.
C17_UnmatchedDateRaises ==
    (FixDateOfStr /\ MatchesNeitherPattern(DateChars)) =>
        /\ last.outcome.kind = "raise"
        /\ last.outcome.error.type = "ValueError"
        /\ last.outcome.value = None

\* The table names of a table_names argument: the items of a list, the keys
\* of a dict.
NamedTables(table_names) ==
    IF table_names[1].kind = "list"
    THEN {table_names[1].items[i] : i \in DOMAIN table_names[1].items}
    ELSE DOMAIN table_names[1].items

\* C18: in st_xata_connection, a connect step that was given table_names and
\* built its client stores the table names on the facade and sets, for each
\* named table, an attribute of that name holding the table's schema; given a
\* dict it also sets, for each alias, an attribute holding the table name.
C18_TableNamesPrefetched ==
    (/\ pkg = XATA
     /\ last.op = "_connect"
     /\ last.client.kind = "client"
     /\ last.args.table_names # None) =>
        /\ _table_names = last.args.table_names
        /\ \A t \in NamedTables(last.args.table_names) :
              t \in DOMAIN attrs /\ attrs[t] = [schema_of |-> t]
        /\ last.args.table_names[1].kind = "dict" =>
              \A t \in NamedTables(last.args.table_names) :
                  /\ last.args.table_names[1].items[t] \in DOMAIN attrs
                  /\ attrs[last.args.table_names[1].items[t]] = [table_name |-> t]

\* An insert call recorded in last that obtained its client.
InsertIssued == last.op = "insert" /\ last.client.kind = "client"

\* Whether the caller of the insert gave create_only, if_version or columns.
InsertOptionGiven ==
    \/ last.args.create_only # None
    \/ last.args.if_version # None
    \/ last.args.columns # None

\* C19 as stated: insert without a record_id always generates a UUID and issues
\* insert_with_id with it, whatever create_only, if_version and columns are.
C19_InsertAlwaysGeneratesUuid ==
    (InsertIssued /\ last.args.record_id = None) =>
        /\ last.calls[1].remote = "records.insert_with_id"
        /\ last.calls[1].args.record_id \in Uuids

\* C20: in both packages, whenever insert is given a non-None create_only,
\* if_version or columns it issues insert_with_id with those same values, under
\* the caller's record_id or else a generated id; it issues the
\* server-assigned-id insert only when all three are None.
C20_InsertOptionsForwarded ==
    InsertIssued =>
        /\ InsertOptionGiven =>
              /\ last.calls[1].remote = "records.insert_with_id"
              /\ last.calls[1].args.create_only = last.args.create_only
              /\ last.calls[1].args.if_version = last.args.if_version
              /\ last.calls[1].args.columns = last.args.columns
              /\ IF last.args.record_id # None
                 THEN last.calls[1].args.record_id = last.args.record_id[1]
                 ELSE last.calls[1].args.record_id \in Uuids
        /\ last.calls[1].remote = "records.insert" => ~InsertOptionGiven

\* C15: the configuration is resolved once: whatever happens to the secrets
\* store and the environment after the connect step, every operation builds
\* its client with the api_key and the db_url the connect step resolved.
C15_ConfigurationFixedAtConnect ==
    (/\ at_connect.tracking
     /\ at_connect.client.kind = "client"
     /\ last.op \in FacadeOps) =>
        /\ last.client.kind = "client"
        /\ last.client.args.api_key = at_connect.client.args.api_key
        /\ HandedDbUrl =
              (IF "db_url" \in DOMAIN at_connect.client.args
               THEN at_connect.client.args.db_url
               ELSE None)

\* The payload the transaction call recorded in last sent to the remote
\* service.
SentPayload == last.calls[1].args[1]

\* C21: transaction always sends a mapping with an "operations" key: a list of
\* operation dicts P is sent as {"operations": P}, a dict that already has the
\* key is sent unchanged, and the payload sent, passed again, would be sent as
\* it is.
C21_TransactionPayloadWrappedOnce ==
    (last.op = "transaction" /\ last.client.kind = "client") =>
        /\ Len(last.calls) = 1
        /\ SentPayload.kind = "dict"
        /\ "operations" \in DOMAIN SentPayload.value
        /\ last.args.payload.kind = "list" =>
              SentPayload.value = [operations |-> last.args.payload]
        /\ (/\ last.args.payload.kind = "dict"
            /\ "operations" \in DOMAIN last.args.payload.value) =>
              SentPayload = last.args.payload
        /\ transaction_payload(SentPayload) = SentPayload

\* C21 witness: the payload {"operations": P} was passed and sent unchanged, and
\* the transaction succeeded.
C21_Witness ==
    /\ last.op = "transaction"
    /\ last.client.kind = "client"
    /\ last.args.payload = [kind |-> "dict", value |-> [operations |-> ListPayload]]
    /\ SentPayload = last.args.payload
    /\ last.outcome.kind = "return"

\* A pagination call recorded in last that obtained its client and was given
\* a response reporting more results.
PageIssued ==
    /\ last.op \in {"next_page", "prev_page"}
    /\ last.client.kind = "client"
    /\ last.args.response.has_more_results

\* The page object of the query the pagination call issued.
SentPage == last.calls[1].args[2].page

\* The argument of the pagination call that goes with a key of the page object.
PageArgument(key) ==
    CASE key = "offset" -> last.args.offset
      [] key = "limit" -> last.args.limit
      [] key = "consistency" -> last.args.consistency

\* C22: given a response that reports more results, next_page issues exactly
\* one query on the given table whose page object has size = pagesize and
\* after = the response's cursor, prev_page the same with before; offset, limit
\* and consistency are in the page object exactly when the argument is not
\* None, with the caller's value; the new page is returned on success and
\* XataServerError is raised on failure.
C22_PageQuery ==
    PageIssued =>
        /\ Len(last.calls) = 1
        /\ last.calls[1].remote = "data.query"
        /\ last.calls[1].args[1] = last.args.table_name
        /\ DOMAIN last.calls[1].args[2] = {"page"}
        /\ SentPage.size = last.args.pagesize
        /\ IF last.op = "next_page"
           THEN "after" \in DOMAIN SentPage /\ "before" \notin DOMAIN SentPage
                /\ SentPage.after = last.args.response.cursor
           ELSE "before" \in DOMAIN SentPage /\ "after" \notin DOMAIN SentPage
                /\ SentPage.before = last.args.response.cursor
        /\ \A key \in {"offset", "limit", "consistency"} :
              IF PageArgument(key) = None
              THEN key \notin DOMAIN SentPage
              ELSE key \in DOMAIN SentPage /\ SentPage[key] = PageArgument(key)[1]
        /\ DOMAIN SentPage \subseteq {"size", "after", "before", "offset", "limit", "consistency"}
        /\ IF last.calls[1].response.is_success
           THEN last.outcome = Return("response", Some(last.calls[1].response))
           ELSE last.outcome =
                   Raise(XataServerError(last.calls[1].response.status_code,
                                         last.calls[1].response.server_message))

\* C22 witness: prev_page with an offset and no consistency queried the page
\* before the cursor and returned it.
C22_Witness ==
    /\ PageIssued
    /\ last.op = "prev_page"
    /\ last.args.offset = Some(40)
    /\ last.args.consistency = None
    /\ SentPage.before = "cursor_2"
    /\ SentPage.offset = 40
    /\ last.outcome.kind = "return"

\* A create_table call recorded in last whose create call succeeded.
TableCreated ==
    /\ last.op = "create_table"
    /\ last.client.kind = "client"
    /\ Len(last.calls) >= 1
    /\ last.calls[1].remote = "table.create"
    /\ last.calls[1].response.is_success

\* C23: create_table is not atomic: when the create call succeeds and the
\* set-schema call fails, it raises XataServerError for the set-schema
\* response and issues no further call, so no delete-table call undoes the
\* successful create; it returns, and then the pair (create response,
\* set-schema response), only when both calls succeed.
C23_CreateTableNotAtomic ==
    /\ TableCreated =>
          /\ Len(last.calls) = 2
          /\ last.calls[2].remote = "table.set_schema"
          /\ \A i \in DOMAIN last.calls : last.calls[i].remote # "table.delete"
          /\ IF last.calls[2].response.is_success
             THEN last.outcome =
                     Return("tuple", <<last.calls[1].response, last.calls[2].response>>)
             ELSE last.outcome =
                     Raise(XataServerError(last.calls[2].response.status_code,
                                           last.calls[2].response.server_message))
    /\ (last.op = "create_table" /\ last.outcome.kind = "return") =>
          /\ Len(last.calls) = 2
          /\ \A i \in 1..2 : last.calls[i].response.is_success

\* C23 witness: the create call succeeded, the set-schema call failed with
\* 404, and create_table raised that error after exactly these two calls.
C23_Witness ==
    /\ TableCreated
    /\ Len(last.calls) = 2
    /\ ~last.calls[2].response.is_success
    /\ last.outcome = Raise(XataServerError(404, "not found"))

\* C24: every facade operation, whether it returns or raises, leaves the
\* stored passthrough options, the stored connect-time credentials, the secrets
\* store and the process environment as they were, and sets nothing on the
\* facade (no response is retained).
C24_OperationsOnlyReadConfiguration ==
    [][last'.op \in FacadeOps \cup {"fix_date"} =>
          /\ client_kwargs' = client_kwargs
          /\ __secrets' = __secrets
          /\ secrets' = secrets
          /\ environ' = environ
          /\ attrs' = attrs
          /\ _table_names' = _table_names]_vars

\* C24 witness: on a facade connected with explicit credentials and options,
\* with an api key in the secrets store too, query raised the error of a failed
\* response.
C24_Witness ==
    /\ last.op = "query"
    /\ last.outcome.kind = "raise"
    /\ Len(last.calls) = 1
    /\ client_kwargs = [branch_name |-> "dev"]
    /\ __secrets = [XATA_API_KEY |-> Some("key_arg"), XATA_DB_URL |-> Some("url_arg")]
    /\ environ = [XATA_DB_URL |-> "url_env"]
    /\ API_KEY \in DOMAIN secrets

\* C25: api_key and db_url are resolved independently of each other: in a
\* resolver call without explicit arguments, with XATA_API_KEY only in the
\* secrets store and XATA_DB_URL only in the environment, the client is built
\* with the secrets api_key and the environment db_url; likewise with the api
\* key only in the environment and the URL only in the secrets store.
C25_CredentialsResolvedIndependently ==
    (ResolverCalled /\ ExplicitKey = None /\ ExplicitUrl = None) =>
        /\ (/\ API_KEY \in DOMAIN secrets /\ API_KEY \notin DOMAIN environ
            /\ DB_URL \notin DOMAIN secrets /\ DB_URL \in DOMAIN environ) =>
              /\ last.client.kind = "client"
              /\ last.client.args.api_key = secrets[API_KEY]
              /\ HandedDbUrl = Some(environ[DB_URL])
        /\ (/\ API_KEY \notin DOMAIN secrets /\ API_KEY \in DOMAIN environ
            /\ DB_URL \in DOMAIN secrets /\ DB_URL \notin DOMAIN environ) =>
              /\ last.client.kind = "client"
              /\ last.client.args.api_key = Some(environ[API_KEY])
              /\ HandedDbUrl = secrets[DB_URL]

\* C25 witness: get built its client with the api key of the secrets store and
\* the db_url of the environment, each being in that one place only.
C25_Witness ==
    /\ last.op = "get"
    /\ secrets = [XATA_API_KEY |-> Some("key_secrets")]
    /\ environ = [XATA_DB_URL |-> "url_env"]
    /\ last.client.kind = "client"
    /\ last.client.args.api_key = Some("key_secrets")
    /\ HandedDbUrl = Some("url_env")

\* C26: client construction is idempotent: while the secrets store and the
\* environment are unchanged, every operation's resolver call yields a client
\* built with the same api_key, db_url and passthrough options as the call of
\* the operation before it (or raises the same error), and no operation changes
\* a field of the facade.
C26_ClientConstructionIdempotent ==
    /\ [](( /\ at_connect.tracking
            /\ at_connect.previous # NoClient
            /\ last.op \in FacadeOps) => last.client = at_connect.previous)
    /\ [][last'.op \in FacadeOps => UNCHANGED fields]_vars

\* C26 witness: an operation built a client with a db_url and options, and the
\* insert after it built the same one.
C26_Witness ==
    /\ at_connect.tracking
    /\ at_connect.previous.kind = "client"
    /\ last.op = "insert"
    /\ last.client = at_connect.previous
    /\ "db_url" \in DOMAIN last.client.args
    /\ last.client.args.kwargs = [branch_name |-> "dev"]

\* C27: operations running concurrently on one facade do not race on shared
\* configuration: in every interleaving of two operations each builds the
\* client (or raises the error) it would build when run alone, and no step of
\* an operation writes the facade's fields, the secrets store or the
\* environment.
C27_ConcurrentOperationsDoNotRace ==
    /\ [](\A t \in Threads :
             /\ threads[t].pc \in {"client", "done"} => threads[t].client = threads[t].alone
             /\ threads[t].pc = "key" =>
                   /\ threads[t].alone.kind = "client"
                   /\ threads[t].alone.args.api_key = threads[t].key.value
                   /\ threads[t].alone.args.kwargs = threads[t].kwargs)
    /\ [][threads' # threads => UNCHANGED <<fields, secrets, environ>>]_vars

\* C27 witness: both threads are inside an operation at once, one about to
\* construct its client, the other done with its remote call on a client built
\* from the environment's api key and db_url.
C27_Witness ==
    /\ threads["thread_1"].pc = "key"
    /\ threads["thread_2"].pc = "done"
    /\ threads["thread_2"].client.kind = "client"
    /\ threads["thread_2"].client = threads["thread_2"].alone
    /\ threads["thread_2"].client.args.api_key = Some("key_env")
    /\ "db_url" \in DOMAIN threads["thread_2"].client.args
    /\ threads["thread_2"].outcome.kind = "return"

\* An sql_query call recorded in last that obtained its client.
SqlIssued ==
    /\ last.op = "sql_query"
    /\ last.client.kind = "client"

\* The arguments of the remote SQL call that sql_query issued.
SentSql == last.calls[1].args

\* C28: the consistency level is forwarded verbatim: the remote SQL call of
\* sql_query carries the caller's consistency value unchanged, and 'strong'
\* when the caller gives none; next_page and prev_page put the caller's value
\* into the page object exactly when it is not None and never a default.
C28_ConsistencyForwardedVerbatim ==
    /\ SqlIssued =>
          /\ "consistency" \in DOMAIN SentSql
          /\ SentSql.consistency = IF last.args.given = <<>>
                                   THEN Some(SqlDefaultConsistency)
                                   ELSE last.args.given[1]
    /\ PageIssued =>
          IF last.args.consistency = None
          THEN "consistency" \notin DOMAIN SentPage
          ELSE /\ "consistency" \in DOMAIN SentPage
               /\ SentPage.consistency = last.args.consistency[1]

\* C29: no facade operation catches an error: a configuration error raised
\* while obtaining the client reaches the caller unchanged and no remote call
\* is issued; an exception raised by a remote call reaches the caller
\* unchanged and the call that raised is the last one the operation issued.
C29_ErrorsPropagateUncaught ==
    last.op \in FacadeOps =>
        /\ last.client.kind = "raise" =>
              /\ last.client.error = ConnectionRefusedError
              /\ last.outcome = Raise(last.client.error)
              /\ last.calls = <<>>
        /\ \A i \in 1..Len(last.calls) :
              IsRaised(last.calls[i].response) =>
                  /\ i = Len(last.calls)
                  /\ last.client.kind = "client"
                  /\ last.outcome = Raise(last.calls[i].response.raised)
                  /\ last.calls[i].response.raised \in RemoteExceptions

\* C29 witness: create_table whose create call succeeded and whose set-schema
\* call raised: two calls were issued and the exception is the outcome.
C29_Witness ==
    /\ last.op = "create_table"
    /\ Len(last.calls) = 2
    /\ ~IsRaised(last.calls[1].response)
    /\ IsRaised(last.calls[2].response)
    /\ last.outcome = Raise([type |-> "ConnectionError", args |-> <<"connection reset">>])

====
